---- MODULE Spec2Model ----
(***************************************************************************)
(* A model of execnet's gateway_base.py: one gateway end (ChannelFactory,  *)
(* Channel objects, the receiver thread, user threads, the slave's exec    *)
(* loop and the shared Serializer), with the peer as an unconstrained      *)
(* sender of messages.                                                     *)
(*                                                                         *)
(* Threads are interleaved at the granularity of the shared accesses of    *)
(* the code: an operation that takes no lock (send, close, receive) is     *)
(* one action per access; what runs under the receive lock is one action   *)
(* per point where another thread can observe it.                          *)
(***************************************************************************)
EXTENDS Integers, Sequences, FiniteSets, TLC

\* ---------------------------------------------------------------- bounds
\* largest channel id the factory allocates in the model
MaxId == 3
\* CHANNEL_DATA payloads the peer sends per channel id
MaxData == 2
\* messages the peer sends in all
MaxMsgs == 3
\* operations the user threads start in all
MaxOps == 2
\* ids each of the two factories allocates
MaxAllocs == 3

\* ------------------------------------------------------- program constants
\* ChannelFactory.__init__(startcount=1)
STARTCOUNT == 1
\* serve(): SlaveGateway(io=io, id=id, _startcount=2)
SLAVESTARTCOUNT == 2
\* FOUR_BYTE_INT_MAX = 2147483647
FOUR_BYTE_INT_MAX == 2147483647
\* Message.CHANNEL_DATA.msgtype: its index in the list of message classes
CHANNEL_DATA == 2
\* ENDMARKER = object(): the sentinel, distinct from every payload (payloads are 1..)
ENDMARKER == 0

Ids == {i \in STARTCOUNT..MaxId : i % 2 = STARTCOUNT % 2}
\* the targets of an RSync, the requests a target sends besides 'done' and
\* how many, and the send() calls made
MaxTargets == 2

MaxReqs == 1

MaxSends == 2

Targets == 1..MaxTargets
Users == {"u1", "u2"}
Threads == Users \cup {"exec"}
NoMsg == [type |-> "none", id |-> 0, data |-> 0]

VARIABLES
    \* ChannelFactory
    channels,       \* _channels: the ids mapped (weakly) to their Channel
    callbacks,      \* _callbacks: id -> "none" | "cb" (no endmarker wanted) | "cbend"
    count,          \* count
    finished,       \* finished
    gwerror,        \* gateway._error is set
    \* Channel objects, by id
    obj,            \* "absent" | "live" | "deleted" (finalized)
    items,          \* _items: "queue" | "None"
    queue,          \* the contents of the Queue made in Channel.__init__
    closed,         \* _closed
    receiveclosed,  \* _receiveclosed.isSet()
    remoteerrors,   \* _remoteerrors
    executing,      \* _executing
    \* user threads and the exec thread
    pc, tch, targ, res, nops,
    \* the receiver thread and the receive lock
    rpc, rmsg, receivelock,
    \* the peer: the ids of the CHANNEL_DATA it sent, in order; messages read
    sentdata, nmsgs,
    \* what was observed: frames sent per id, payloads handed over per id, ...
    out, delivered, enqueued, eofraised, closecalled, endcalls, removals,
    \* SlaveGateway
    execqueue, execfinished, exited,
    \* Serializer (shared by all senders of one gateway) and the transport
    streamlist,     \* Serializer.streamlist: which list object it refers to
    wfn,            \* Serializer._write: the list object whose append it is bound to
    lists,          \* the list objects made by save, with what was appended to each
    wire,           \* the strings written to the transport, in order
    sv,             \* per thread: the writes its save has to do, the next one, its serial
    nsaves,         \* the saves started
    failedsaves     \* the serials of the saves that raised SerializationError

facvars == <<channels, callbacks, count, finished, gwerror>>
chvars == <<obj, items, queue, closed, receiveclosed, remoteerrors, executing>>
thvars == <<pc, tch, targ, res, nops>>
rcvvars == <<rpc, rmsg, receivelock>>
peervars == <<sentdata, nmsgs>>
obsvars == <<out, delivered, enqueued, eofraised, closecalled, endcalls, removals>>
slvvars == <<execqueue, execfinished, exited>>
servars == <<streamlist, wfn, lists, wire, sv, nsaves, failedsaves>>
\* the peer's ChannelFactory (count, _channels) and the ids each factory's new() allocated, in order
VARIABLES
    peercount, peerchannels, allocated, peerallocated

idvars == <<peercount, peerchannels, allocated, peerallocated>>
\* what setcallback found in the queue when it began, and the payloads passed to the callback, per id
VARIABLES
    fngot, snap

cbvars == <<fngot, snap>>
\* a Serializer and an Unserializer on one stream: the object given to save, what the stream holds, the Unserializer's read position and stack, what load returned, and how far the two have come
VARIABLES
    saved, stream, pos, stack, loaded, lpc

ldvars == <<saved, stream, pos, stack, loaded, lpc>>
\* STATUS.received: active_channels, the channels its loop has still to look at, numexec, and the replies sent, each with the sizes that held when it was sent
VARIABLES
    stchans, sttodo, stnumexec, replies

stvars == <<stchans, sttodo, stnumexec, replies>>
\* the main thread of the slave: the KeyboardInterrupt of interrupt_main ("no", "pending", "raised"), and whether an exception is on its way out of the exec loop
VARIABLES
    interrupt, stoploop

intvars == <<interrupt, stoploop>>
\* the ids of the channels on which setcallback was given an endmarker
VARIABLES
    endwanted

wantvars == <<endwanted>>
\* RSync: _channels (the targets in it) and the finishedcallback of each, _receivequeue, where the thread that calls add_target and send is and the channel it handles, the calls of each finishedcallback, the messages sent to each target, each target's channel ("absent", "open", "closed", "closed_error", "eof"), the targets whose remote end has sent 'done' and the other requests each has sent, the targets a send() started with, those whose 'done' it has handled, those whose channel it saw end while they were targets, and the outcomes of the send() calls
VARIABLES
    rsync_channels, finishedcallback, receivequeue, rspc, rscur, fcalls, rsent, rchan, donesent, nreqs, rstart, rdone, rearly, rres

rsvars == <<rsync_channels, finishedcallback, receivequeue, rspc, rscur, fcalls, rsent, rchan, donesent, nreqs, rstart, rdone, rearly, rres>>
vars == <<facvars, chvars, thvars, rcvvars, peervars, obsvars, slvvars, servars, idvars, cbvars, ldvars, stvars, intvars, wantvars, rsvars>>

NoSave == [toks |-> <<>>, i |-> 0, ser |-> 0]

\* the state after construction, but for the factory's count
InitGateway ==
    /\ channels = {}
    /\ callbacks = [c \in Ids |-> "none"]
    /\ finished = FALSE
    /\ gwerror = FALSE
    /\ obj = [c \in Ids |-> "absent"]
    /\ items = [c \in Ids |-> "queue"]
    /\ queue = [c \in Ids |-> <<>>]
    /\ closed = [c \in Ids |-> FALSE]
    /\ receiveclosed = [c \in Ids |-> FALSE]
    /\ remoteerrors = [c \in Ids |-> <<>>]
    /\ executing = [c \in Ids |-> FALSE]
    /\ pc = [t \in Threads |-> "idle"]
    /\ tch = [t \in Threads |-> 0]
    /\ targ = [t \in Threads |-> "None"]
    /\ res = [t \in Threads |-> "none"]
    /\ nops = 0
    /\ rpc = "read"
    /\ rmsg = NoMsg
    /\ receivelock = "free"
    /\ sentdata = <<>>
    /\ nmsgs = 0
    /\ out = [c \in Ids |-> <<>>]
    /\ delivered = [c \in Ids |-> <<>>]
    /\ enqueued = [c \in Ids |-> 0]
    /\ eofraised = [c \in Ids |-> FALSE]
    /\ closecalled = [c \in Ids |-> FALSE]
    /\ endcalls = [c \in Ids |-> 0]
    /\ removals = [c \in Ids |-> 0]
    /\ execqueue = <<>>
    /\ execfinished = FALSE
    /\ exited = FALSE
    /\ streamlist = 0
    /\ wfn = 0
    /\ lists = <<>>
    /\ nsaves = 0
    /\ failedsaves = {}
    /\ wire = <<>>
    /\ sv = [t \in Threads |-> NoSave]
    /\ peercount = SLAVESTARTCOUNT
    /\ peerchannels = {}
    /\ allocated = <<>>
    /\ peerallocated = <<>>
    /\ fngot = [c \in Ids |-> <<>>]
    /\ snap = [c \in Ids |-> <<>>]
    /\ saved = [k |-> "NoneType", n |-> 0, s |-> <<>>, items |-> <<>>]
    /\ stream = <<>>
    /\ pos = 1
    /\ stack = <<>>
    /\ loaded = [k |-> "NoneType", n |-> 0, s |-> <<>>, items |-> <<>>]
    /\ lpc = "idle"
    /\ stchans = {}
    /\ sttodo = {}
    /\ stnumexec = 0
    /\ replies = <<>>
    /\ interrupt = "no"
    /\ stoploop = FALSE
    /\ endwanted = {}
    /\ rsync_channels = {}
    /\ finishedcallback = [t \in Targets |-> "None"]
    /\ receivequeue = <<>>
    /\ rspc = "idle"
    /\ rscur = 0
    /\ fcalls = [t \in Targets |-> 0]
    /\ rsent = [t \in Targets |-> 0]
    /\ rchan = [t \in Targets |-> "absent"]
    /\ donesent = {}
    /\ nreqs = [t \in Targets |-> 0]
    /\ rstart = {}
    /\ rdone = {}
    /\ rearly = {}
    /\ rres = <<>>

\* a gateway whose factory counts from ChannelFactory's default
Init ==
    /\ InitGateway
    /\ count = STARTCOUNT

\* serve(): SlaveGateway(io=io, id=id, _startcount=2)
InitSlave ==
    /\ InitGateway
    /\ count = SLAVESTARTCOUNT

\* ------------------------------------------------------------ helpers
\* a put at the head of the queue instead of its tail
QueuePutFront(q, x) ==
    <<x>> \o q

\* queue.Queue.put
QueuePut(q, x) ==
    Append(q, x)

\* BaseGateway._send at the level of messages: one frame for channel id c
GwSend(c, type) ==
    out' = [out EXCEPT ![c] = Append(@, type)]

\* a thread's operation ends with result r
Return(t, r) ==
    /\ pc' = [pc EXCEPT ![t] = "idle"]
    /\ res' = [res EXCEPT ![t] = r]
    /\ tch' = [tch EXCEPT ![t] = 0]
    /\ targ' = [targ EXCEPT ![t] = "None"]

\* an operation starts: thread t is at label l, on channel c with argument a
Goto(t, l, c, a) ==
    /\ pc' = [pc EXCEPT ![t] = l]
    /\ res' = [res EXCEPT ![t] = "none"]
    /\ tch' = [tch EXCEPT ![t] = c]
    /\ targ' = [targ EXCEPT ![t] = a]

\* thread t moves on to label l of its operation
Step(t, l) ==
    /\ pc' = [pc EXCEPT ![t] = l]
    /\ UNCHANGED <<res, tch, targ>>

\* the receiver is done with its message
RcvDone ==
    /\ rpc' = "read"
    /\ rmsg' = NoMsg
    /\ receivelock' = "free"

\* a user thread starts an operation on a channel it holds a reference to
CanStart(t, c) ==
    /\ t \in Users
    /\ pc[t] = "idle"
    /\ t = "u1" \/ pc["u1"] # "idle"
    /\ obj[c] = "live"
    /\ \A i \in DOMAIN execqueue : execqueue[i] # c
    /\ nops < MaxOps

\* ChannelFactory._no_longer_opened for the ids of S: the new callbacks,
\* channels, endcalls and removals
NloChannels(S) ==
    channels \ S

\* a _no_longer_opened that leaves the entry of _callbacks where it is
NloCallbacksKept(S) ==
    callbacks

\* line 474: callback, endmarker = self._callbacks.pop(id)
NloCallbacks(S) ==
    [c \in Ids |-> IF c \in S THEN "none" ELSE callbacks[c]]

NloEndcalls(S) ==
    [c \in Ids |-> IF c \in S /\ callbacks[c] = "cbend" THEN endcalls[c] + 1 ELSE endcalls[c]]

NloRemovals(S) ==
    [c \in Ids |-> IF c \in S /\ c \in channels THEN removals[c] + 1 ELSE removals[c]]

NoLongerOpened(S) ==
    /\ channels' = NloChannels(S)
    /\ callbacks' = NloCallbacks(S)
    /\ endcalls' = NloEndcalls(S)
    /\ removals' = NloRemovals(S)

\* ChannelFactory._local_close for each id of S (one id for a message, every
\* mapped id in _finished_receiving), run in the receiver thread

\* a _local_close that sets _closed for a half-close too
LocalCloseClosedAlways(S, sendonly) ==
    [c \in Ids |-> IF c \in S /\ c \in channels THEN TRUE ELSE closed[c]]

\* lines 492-493: if not sendonly: channel._closed = True
LocalCloseClosed(S, sendonly) ==
    [c \in Ids |-> IF c \in S /\ c \in channels /\ ~sendonly THEN TRUE ELSE closed[c]]

\* a _local_close that leaves the latch alone
LocalCloseLatchUnset(S) ==
    receiveclosed

LocalCloseLatch(S) ==
    [c \in Ids |-> IF c \in S /\ c \in channels THEN TRUE ELSE receiveclosed[c]]

\* a _local_close that puts the end-marker ahead of the queued items
LocalCloseQueueFront(S) ==
    [c \in Ids |-> IF c \in S /\ c \in channels /\ items[c] = "queue"
                   THEN <<ENDMARKER>> \o queue[c] ELSE queue[c]]

\* a _local_close that puts no end-marker
LocalCloseQueueNoMarker(S) ==
    queue

LocalCloseQueue(S) ==
    [c \in Ids |-> IF c \in S /\ c \in channels /\ items[c] = "queue"
                   THEN QueuePut(queue[c], ENDMARKER) ELSE queue[c]]

LocalCloseErrors(S, err) ==
    [c \in Ids |-> IF c \in S /\ c \in channels /\ err # "None"
                   THEN Append(remoteerrors[c], err) ELSE remoteerrors[c]]

LocalClose(S, err, sendonly) ==
    /\ remoteerrors' = LocalCloseErrors(S, err)
    /\ closed' = LocalCloseClosed(S, sendonly)
    /\ receiveclosed' = LocalCloseLatch(S)
    /\ queue' = LocalCloseQueue(S)
    /\ NoLongerOpened(S)

\* ChannelFactory._finished_receiving
FinishedReceiving ==
    /\ finished' = TRUE
    /\ remoteerrors' = remoteerrors
    /\ closed' = LocalCloseClosed(channels, TRUE)
    /\ receiveclosed' = LocalCloseLatch(channels)
    /\ queue' = LocalCloseQueue(channels)
    /\ NoLongerOpened(channels \cup {c \in Ids : callbacks[c] # "none"})

\* ------------------------------------------------- ChannelFactory.new()
\* a counter that steps by one
NextCountByOne(n) ==
    n + 1

\* line 453: self.count += 2
NextCount(n) ==
    n + 2

\* lines 445-460, id=None
NewChannel ==
    /\ \E t \in Users : pc[t] = "idle"
    /\ ~finished
    /\ count <= MaxId
    /\ obj[count] = "absent"
    /\ channels' = channels \cup {count}
    /\ obj' = [obj EXCEPT ![count] = "live"]
    /\ count' = NextCount(count)
    /\ allocated' = Append(allocated, count)
    /\ UNCHANGED <<callbacks, finished, gwerror, items, queue, closed, receiveclosed,
                   remoteerrors, executing, thvars, rcvvars, peervars, obsvars,
                   slvvars, servars, peercount, peerchannels, peerallocated, cbvars, rsvars, wantvars, intvars, stvars, ldvars>>

\* ------------------------------------------------------- Channel.send
\* a send that is refused on a sendonly channel too
SendRefusedWhenLatched(c) ==
    closed[c] \/ receiveclosed[c]

\* line 386: if self.isclosed(): raise IOError
SendRefused(c) ==
    closed[c]

SendBegin(t, c) ==
    /\ CanStart(t, c)
    /\ nops' = nops + 1
    /\ IF SendRefused(c)
       THEN Return(t, "IOError")
       ELSE Goto(t, "send_emit", c, "None")
    /\ UNCHANGED <<facvars, chvars, rcvvars, peervars, obsvars, slvvars, servars, idvars, cbvars, rsvars, wantvars, intvars, stvars, ldvars>>

\* lines 388-389: self.gateway._send(data)
SendEmit(t) ==
    /\ pc[t] = "send_emit"
    /\ GwSend(tch[t], "CHANNEL_DATA")
    /\ Return(t, "ok")
    /\ UNCHANGED <<facvars, chvars, nops, rcvvars, peervars, delivered,
                   enqueued, eofraised, closecalled, endcalls, removals, slvvars, servars, idvars, cbvars, rsvars, wantvars, intvars, stvars, ldvars>>

\* ------------------------------------------------------ Channel.close
\* a close() that goes ahead whatever _executing says
CloseNeverRefused(c) ==
    FALSE

\* line 335: if self._executing: raise IOError
CloseRefused(c) ==
    executing[c]

\* lines 335-339: the checks of executing and closed
CloseEnter(t, c, err) ==
    IF CloseRefused(c)
    THEN /\ Return(t, "IOError")
         /\ UNCHANGED closecalled
    ELSE IF closed[c]
    THEN /\ Return(t, "ok")
         /\ UNCHANGED closecalled
    ELSE /\ Goto(t, "close_chk", c, err)
         /\ closecalled' = [closecalled EXCEPT ![c] = TRUE]

CloseBegin(t, c, err) ==
    /\ CanStart(t, c)
    /\ nops' = nops + 1
    /\ CloseEnter(t, c, err)
    /\ UNCHANGED <<facvars, chvars, rcvvars, peervars, out, delivered, enqueued,
                   eofraised, endcalls, removals, slvvars, servars, idvars, cbvars, rsvars, wantvars, intvars, stvars, ldvars>>

\* a close() that sends its message on a receive-closed channel too
CloseSendsAlways(c) ==
    TRUE

\* line 345: if not self._receiveclosed.isSet()
CloseSends(c) ==
    ~receiveclosed[c]

CloseCheck(t) ==
    /\ pc[t] = "close_chk"
    /\ Step(t, IF CloseSends(tch[t]) THEN "close_send" ELSE "close_set")
    /\ UNCHANGED <<facvars, chvars, nops, rcvvars, peervars, obsvars, slvvars, servars, idvars, cbvars, rsvars, wantvars, intvars, stvars, ldvars>>

\* a close that sends CHANNEL_CLOSE whatever its error argument
CloseFrameNoError(err) ==
    "CHANNEL_CLOSE"

\* lines 347-350: the message of close(error)
CloseFrame(err) ==
    IF err = "None" THEN "CHANNEL_CLOSE" ELSE "CHANNEL_CLOSE_ERROR"

\* lines 346-350: put(Message.CHANNEL_CLOSE...)
CloseSend(t) ==
    /\ pc[t] = "close_send"
    /\ GwSend(tch[t], CloseFrame(targ[t]))
    /\ Step(t, "close_set")
    /\ UNCHANGED <<facvars, chvars, nops, rcvvars, peervars, delivered,
                   enqueued, eofraised, closecalled, endcalls, removals, slvvars, servars, idvars, cbvars, rsvars, wantvars, intvars, stvars, ldvars>>

\* line 354: self._closed = True
CloseSetClosed(t) ==
    /\ pc[t] = "close_set"
    /\ closed' = [closed EXCEPT ![tch[t]] = TRUE]
    /\ Step(t, "close_latch")
    /\ UNCHANGED <<facvars, obj, items, queue, receiveclosed, remoteerrors, executing,
                   nops, rcvvars, peervars, obsvars, slvvars, servars, idvars, cbvars, rsvars, wantvars, intvars, stvars, ldvars>>

\* line 355: self._receiveclosed.set()
CloseSetLatch(t) ==
    /\ pc[t] = "close_latch"
    /\ receiveclosed' = [receiveclosed EXCEPT ![tch[t]] = TRUE]
    /\ Step(t, "close_put")
    /\ UNCHANGED <<facvars, obj, items, queue, closed, remoteerrors, executing,
                   nops, rcvvars, peervars, obsvars, slvvars, servars, idvars, cbvars, rsvars, wantvars, intvars, stvars, ldvars>>

\* lines 356-358: the end-marker, when the channel still has its queue
ClosePutQueue(c) ==
    IF items[c] = "queue" THEN QueuePut(queue[c], ENDMARKER) ELSE queue[c]

ClosePut(t) ==
    /\ pc[t] = "close_put"
    /\ queue' = [queue EXCEPT ![tch[t]] = ClosePutQueue(tch[t])]
    /\ Step(t, "close_nlo")
    /\ UNCHANGED <<facvars, obj, items, closed, receiveclosed, remoteerrors, executing,
                   nops, rcvvars, peervars, obsvars, slvvars, servars, idvars, cbvars, rsvars, wantvars, intvars, stvars, ldvars>>

\* line 359: self.gateway._channelfactory._no_longer_opened(self.id)
CloseNlo(t) ==
    /\ pc[t] = "close_nlo"
    /\ NoLongerOpened({tch[t]})
    /\ Return(t, "ok")
    /\ UNCHANGED <<count, finished, gwerror, chvars, nops, rcvvars, peervars,
                   out, delivered, enqueued, eofraised, closecalled, slvvars, servars, idvars, cbvars, rsvars, wantvars, intvars, stvars, ldvars>>

\* ------------------------------------------- Channel._getremoteerror
\* a _getremoteerror that leaves the error in the list
RemoteErrorsKept(c) ==
    remoteerrors[c]

\* line 302: self._remoteerrors.pop(0), the list that is left
RemoteErrorsPopped(c) ==
    IF remoteerrors[c] = <<>> THEN <<>> ELSE Tail(remoteerrors[c])

\* ---------------------------------------------------- Channel.receive
\* lines 401-407
ReceiveBegin(t, c, timeout) ==
    /\ CanStart(t, c)
    /\ nops' = nops + 1
    /\ IF items[c] = "None"
       THEN Return(t, "IOError")
       ELSE Goto(t, "recv_get", c, timeout)
    /\ UNCHANGED <<facvars, chvars, rcvvars, peervars, obsvars, slvvars, servars, idvars, cbvars, rsvars, wantvars, intvars, stvars, ldvars>>

\* queue.Queue.get: the item taken and the queue left
QueueHead(q) ==
    Head(q)

QueueRest(q) ==
    Tail(q)

\* a get that gives up on an empty queue whatever the timeout
ReceiveExpiresAlways(t) ==
    TRUE

\* lines 413-416: on queue.Empty a receive(timeout<0) goes on waiting, a
\* receive with a timeout raises TimeoutError
ReceiveExpires(t) ==
    targ[t] = "timeout"

\* lines 409-421: itemqueue.get, then the item returned, the end-marker seen,
\* or the timeout expired on an empty queue
ReceiveGet(t) ==
    /\ pc[t] = "recv_get"
    /\ LET c == tch[t] IN
       IF queue[c] # <<>>
       THEN /\ queue' = [queue EXCEPT ![c] = QueueRest(queue[c])]
            /\ IF QueueHead(queue[c]) = ENDMARKER
               THEN /\ Step(t, "recv_putback")
                    /\ UNCHANGED delivered
               ELSE /\ delivered' = [delivered EXCEPT ![c] = Append(@, QueueHead(queue[c]))]
                    /\ Return(t, "item")
       ELSE /\ ReceiveExpires(t)
            /\ Return(t, "TimeoutError")
            /\ UNCHANGED <<queue, delivered>>
    /\ UNCHANGED <<facvars, obj, items, closed, receiveclosed, remoteerrors, executing,
                   nops, rcvvars, peervars, out, enqueued, eofraised,
                   closecalled, endcalls, removals, slvvars, servars, idvars, cbvars, rsvars, wantvars, intvars, stvars, ldvars>>

\* line 418: itemqueue.put(x)  # for other receivers
ReceivePutback(t) ==
    /\ pc[t] = "recv_putback"
    /\ queue' = [queue EXCEPT ![tch[t]] = QueuePut(@, ENDMARKER)]
    /\ Step(t, "recv_raise")
    /\ UNCHANGED <<facvars, obj, items, closed, receiveclosed, remoteerrors, executing,
                   nops, rcvvars, peervars, obsvars, slvvars, servars, idvars, cbvars, rsvars, wantvars, intvars, stvars, ldvars>>

\* line 419 and _getremoteerror (300-308): the first queued error, else EOFError
ReceiveRaise(t) ==
    /\ pc[t] = "recv_raise"
    /\ LET c == tch[t] IN
       /\ IF remoteerrors[c] # <<>>
          THEN /\ remoteerrors' = [remoteerrors EXCEPT ![c] = RemoteErrorsPopped(c)]
               /\ Return(t, "RemoteError")
          ELSE /\ Return(t, "EOFError")
               /\ UNCHANGED remoteerrors
       /\ eofraised' = [eofraised EXCEPT ![c] = TRUE]
    /\ UNCHANGED <<facvars, obj, items, queue, closed, receiveclosed, executing,
                   nops, rcvvars, peervars, out, delivered, enqueued,
                   closecalled, endcalls, removals, slvvars, servars, idvars, cbvars, rsvars, wantvars, intvars, stvars, ldvars>>

\* -------------------------------------------------- Channel.waitclose
\* a _getremoteerror that does not look at the gateway's _error
GetRemoteErrorNoGateway(c) ==
    IF remoteerrors[c] # <<>> THEN "RemoteError" ELSE "None"

\* _getremoteerror (300-308): the first queued error, else the gateway's
\* _error when the receiver has recorded one, else None
GetRemoteError(c) ==
    IF remoteerrors[c] # <<>> THEN "RemoteError"
    ELSE IF gwerror THEN "EOFError"
    ELSE "None"

WaitcloseBegin(t, c, timeout) ==
    /\ CanStart(t, c)
    /\ nops' = nops + 1
    /\ Goto(t, "wc_wait", c, timeout)
    /\ UNCHANGED <<facvars, chvars, rcvvars, peervars, obsvars, slvvars, servars, idvars, cbvars, rsvars, wantvars, intvars, stvars, ldvars>>

\* lines 372-374: the wait for the latch ends, the latch set or the timeout
\* expired
WaitcloseWait(t) ==
    /\ pc[t] = "wc_wait"
    /\ IF receiveclosed[tch[t]]
       THEN Step(t, "wc_error")
       ELSE /\ targ[t] = "timeout"
            /\ Return(t, "TimeoutError")
    /\ UNCHANGED <<facvars, chvars, nops, rcvvars, peervars, obsvars, slvvars, servars,
                   idvars, cbvars, rsvars, wantvars, intvars, stvars, ldvars>>

\* lines 375-377: error = self._getremoteerror(); if error: raise error
WaitcloseError(t) ==
    /\ pc[t] = "wc_error"
    /\ Return(t, IF GetRemoteError(tch[t]) = "None" THEN "ok" ELSE GetRemoteError(tch[t]))
    /\ remoteerrors' = [remoteerrors EXCEPT ![tch[t]] = RemoteErrorsPopped(tch[t])]
    /\ UNCHANGED <<facvars, obj, items, queue, closed, receiveclosed, executing, nops,
                   rcvvars, peervars, obsvars, slvvars, servars, idvars, cbvars, rsvars, wantvars, intvars, stvars, ldvars>>

\* ------------------------------------------------ Channel.setcallback
\* lines 246-253: the receive lock taken, the queue swapped out
SetcallbackBegin(t, c, em) ==
    /\ CanStart(t, c)
    /\ receivelock = "free"
    /\ nops' = nops + 1
    /\ IF items[c] = "None"
       THEN /\ Return(t, "IOError")
            /\ UNCHANGED <<items, receivelock, snap, endwanted>>
       ELSE /\ items' = [items EXCEPT ![c] = "None"]
            /\ receivelock' = t
            /\ snap' = [snap EXCEPT ![c] = queue[c]]
            /\ endwanted' = IF em = "cbend" THEN endwanted \cup {c} ELSE endwanted
            /\ Goto(t, "setcb_loop", c, em)
    /\ UNCHANGED <<facvars, obj, queue, closed, receiveclosed, remoteerrors, executing,
                   rpc, rmsg, peervars, obsvars, slvvars, servars, idvars, fngot, stvars, intvars, rsvars, ldvars>>

\* setcallback returns: to the caller, or into the body the exec thread runs
SetcallbackReturn(t) ==
    IF t = "exec"
    THEN /\ pc' = [pc EXCEPT ![t] = "exec_body"]
         /\ targ' = [targ EXCEPT ![t] = "None"]
         /\ UNCHANGED <<res, tch>>
    ELSE Return(t, "ok")

\* a setcallback that registers nothing
SetcallbackNeverRegisters(c) ==
    FALSE

\* line 258: the callback is registered only on a channel still open
SetcallbackRegisters(c) ==
    ~(closed[c] \/ receiveclosed[c])

\* lines 254-270: one turn of the drain loop
SetcallbackLoop(t) ==
    /\ pc[t] = "setcb_loop"
    /\ LET c == tch[t] IN
       IF queue[c] = <<>>
       THEN /\ IF SetcallbackRegisters(c)
               THEN /\ Step(t, "setcb_reg")
                    /\ UNCHANGED receivelock
               ELSE /\ receivelock' = "free"
                    /\ SetcallbackReturn(t)
            /\ UNCHANGED <<callbacks, queue, delivered, endcalls, fngot>>
       ELSE IF QueueHead(queue[c]) = ENDMARKER
       THEN /\ queue' = [queue EXCEPT ![c] = QueuePut(QueueRest(@), ENDMARKER)]
            /\ endcalls' = [endcalls EXCEPT ![c] = IF targ[t] = "cbend" THEN @ + 1 ELSE @]
            /\ receivelock' = "free"
            /\ SetcallbackReturn(t)
            /\ UNCHANGED <<callbacks, delivered, fngot>>
       ELSE /\ queue' = [queue EXCEPT ![c] = QueueRest(@)]
            /\ delivered' = [delivered EXCEPT ![c] = Append(@, QueueHead(queue[c]))]
            /\ fngot' = [fngot EXCEPT ![c] = Append(@, QueueHead(queue[c]))]
            /\ UNCHANGED <<callbacks, endcalls, receivelock, pc, res, tch, targ>>
    /\ UNCHANGED <<channels, count, finished, gwerror, obj, items, closed, receiveclosed,
                   remoteerrors, executing, nops, rpc, rmsg, peervars, out,
                   enqueued, eofraised, closecalled, removals, slvvars, servars, idvars, snap, stvars, intvars, wantvars, rsvars, ldvars>>

\* line 259: _callbacks[self.id] = (callback, endmarker), after the check of
\* line 258 and not in one step with it; then the lock is released
SetcallbackRegister(t) ==
    /\ pc[t] = "setcb_reg"
    /\ callbacks' = [callbacks EXCEPT ![tch[t]] = targ[t]]
    /\ receivelock' = "free"
    /\ SetcallbackReturn(t)
    /\ UNCHANGED <<channels, count, finished, gwerror, chvars, nops, rpc, rmsg, peervars,
                   obsvars, slvvars, servars, idvars, cbvars, rsvars, wantvars, intvars, stvars, ldvars>>

\* ---------------------------------------------------- Channel.__del__
\* the last reference goes: no thread is inside an operation on the channel,
\* the receiver holds no reference to it, no task holds it
Unreferenced(c) ==
    /\ \A t \in Threads : tch[t] # c
    /\ ~(rpc = "lr_put" /\ rmsg.id = c)
    /\ \A i \in 1..Len(execqueue) : execqueue[i] # c

\* a finalizer that sends CHANNEL_CLOSE whatever the state of the channel
DelMessagesAlwaysClose(c) ==
    <<"CHANNEL_CLOSE">>

\* lines 281-298: the message of the transition "opened" --> "deleted"
DelMessages(c) ==
    IF closed[c] \/ receiveclosed[c] THEN <<>>
    ELSE IF items[c] = "None" THEN <<"CHANNEL_LAST_MESSAGE">>
    ELSE <<"CHANNEL_CLOSE">>

Finalize(c) ==
    /\ obj[c] = "live"
    /\ ~exited
    /\ Unreferenced(c)
    /\ nops < MaxOps
    /\ nops' = nops + 1
    /\ obj' = [obj EXCEPT ![c] = "deleted"]
    /\ out' = [out EXCEPT ![c] = @ \o DelMessages(c)]
    /\ channels' = channels \ {c}
    /\ removals' = [removals EXCEPT ![c] = IF c \in channels THEN @ + 1 ELSE @]
    /\ UNCHANGED <<callbacks, count, finished, gwerror, items, queue, closed,
                   receiveclosed, remoteerrors, executing, pc, tch, targ, res, rcvvars,
                   peervars, delivered, enqueued, eofraised, closecalled, endcalls,
                   slvvars, servars, idvars, cbvars, rsvars, wantvars, intvars, stvars, ldvars>>

\* ------------------------------------------ BaseGateway._thread_receiver
\* the messages the peer can send next
\* the CHANNEL_DATA the peer has sent on id c: their payloads are 1, 2, ...
NSent(c) ==
    Cardinality({i \in DOMAIN sentdata : sentdata[i] = c})

PeerMsgs ==
    {[type |-> "CHANNEL_DATA", id |-> c, data |-> NSent(c) + 1] :
        c \in {d \in Ids : NSent(d) < MaxData}}
    \cup {[type |-> ty, id |-> c, data |-> 0] :
        ty \in {"CHANNEL_CLOSE", "CHANNEL_CLOSE_ERROR", "CHANNEL_LAST_MESSAGE"}, c \in Ids}

\* lines 500-510: _local_receive up to the lookups
LocalReceiveLookup(m) ==
    /\ m.type = "CHANNEL_DATA"
    /\ IF callbacks[m.id] # "none"
       THEN /\ rpc' = "lr_cb"
            /\ rmsg' = m
            /\ receivelock' = "receiver"
       ELSE IF m.id \in channels /\ items[m.id] = "queue"
       THEN /\ rpc' = "lr_put"
            /\ rmsg' = m
            /\ receivelock' = "receiver"
       ELSE RcvDone
    /\ UNCHANGED <<facvars, chvars, obsvars>>

\* CHANNEL_CLOSE, CHANNEL_CLOSE_ERROR, CHANNEL_LAST_MESSAGE .received
CloseReceived(m) ==
    /\ m.type \in {"CHANNEL_CLOSE", "CHANNEL_CLOSE_ERROR", "CHANNEL_LAST_MESSAGE"}
    /\ LocalClose({m.id},
                  IF m.type = "CHANNEL_CLOSE_ERROR" THEN "RemoteError" ELSE "None",
                  m.type = "CHANNEL_LAST_MESSAGE")
    /\ RcvDone
    /\ UNCHANGED <<count, finished, gwerror, obj, items, executing, out, delivered,
                   enqueued, eofraised, closecalled>>

\* lines 613-621: one message read, then dispatched under the receive lock
RcvMessage(m) ==
    /\ rpc = "read"
    /\ receivelock = "free"
    /\ nmsgs < MaxMsgs
    /\ nmsgs' = nmsgs + 1
    /\ sentdata' = IF m.type = "CHANNEL_DATA" THEN Append(sentdata, m.id) ELSE sentdata
    /\ \/ LocalReceiveLookup(m)
       \/ CloseReceived(m)
    /\ UNCHANGED <<thvars, slvvars, servars, idvars, cbvars, rsvars, wantvars, intvars, stvars, ldvars>>

\* line 510: queue.put(data)
RcvPut ==
    /\ rpc = "lr_put"
    /\ queue' = [queue EXCEPT ![rmsg.id] = QueuePut(@, rmsg.data)]
    /\ enqueued' = [enqueued EXCEPT ![rmsg.id] = @ + 1]
    /\ RcvDone
    /\ UNCHANGED <<facvars, obj, items, closed, receiveclosed, remoteerrors, executing,
                   thvars, peervars, out, delivered, eofraised, closecalled,
                   endcalls, removals, slvvars, servars, idvars, cbvars, rsvars, wantvars, intvars, stvars, ldvars>>

\* lines 512-519: callback(data), which returns or raises
RcvCallback(raises) ==
    /\ rpc = "lr_cb"
    /\ delivered' = [delivered EXCEPT ![rmsg.id] = Append(@, rmsg.data)]
    /\ fngot' = [fngot EXCEPT ![rmsg.id] = Append(@, rmsg.data)]
    /\ IF raises
       THEN /\ rpc' = "lr_cberr_send"
            /\ UNCHANGED <<rmsg, receivelock>>
       ELSE RcvDone
    /\ UNCHANGED <<facvars, chvars, thvars, peervars, out, enqueued, eofraised,
                   closecalled, endcalls, removals, slvvars, servars, idvars, snap, stvars, intvars, wantvars, rsvars, ldvars>>

\* line 520: self.gateway._send(Message.CHANNEL_CLOSE_ERROR(id, errortext))
RcvCbErrSend ==
    /\ rpc = "lr_cberr_send"
    /\ GwSend(rmsg.id, "CHANNEL_CLOSE_ERROR")
    /\ rpc' = "lr_cberr_close"
    /\ UNCHANGED <<facvars, chvars, thvars, rmsg, receivelock, peervars, delivered,
                   enqueued, eofraised, closecalled, endcalls, removals, slvvars, servars, idvars, cbvars, rsvars, wantvars, intvars, stvars, ldvars>>

\* line 521: self._local_close(id, errortext). errortext is a str: when the
\* channel is no longer mapped, line 487 calls errortext.warn(), the
\* AttributeError ends the receiver loop (line 630) and _finished_receiving runs
RcvCbErrClose ==
    /\ rpc = "lr_cberr_close"
    /\ IF rmsg.id \in channels
       THEN /\ LocalClose({rmsg.id}, "errortext", FALSE)
            /\ rpc' = "read"
            /\ UNCHANGED finished
       ELSE /\ FinishedReceiving
            /\ rpc' = "done"
    /\ rmsg' = NoMsg
    /\ receivelock' = "free"
    /\ UNCHANGED <<count, gwerror, obj, items, executing, thvars, peervars, out,
                   delivered, enqueued, eofraised, closecalled, slvvars, servars, idvars, cbvars, rsvars, wantvars, intvars, stvars, ldvars>>

\* lines 625-635: EOF on the transport's read side
RcvEOF ==
    /\ rpc = "read"
    /\ nmsgs < MaxMsgs
    /\ nmsgs' = nmsgs + 1
    /\ gwerror' = TRUE
    /\ FinishedReceiving
    /\ rpc' = "done"
    /\ UNCHANGED <<count, obj, items, executing, thvars, rmsg, receivelock, sentdata,
                   out, delivered, enqueued, eofraised, closecalled, slvvars, servars, idvars, cbvars, rsvars, wantvars, intvars, stvars, ldvars>>

Next ==
    \/ NewChannel
    \/ \E t \in Users, c \in Ids : SendBegin(t, c)
    \/ \E t \in Threads : SendEmit(t)
    \/ \E t \in Users, c \in Ids, err \in {"None", "error"} : CloseBegin(t, c, err)
    \/ \E t \in Threads : CloseCheck(t)
    \/ \E t \in Threads : CloseSend(t)
    \/ \E t \in Threads : CloseSetClosed(t)
    \/ \E t \in Threads : CloseSetLatch(t)
    \/ \E t \in Threads : ClosePut(t)
    \/ \E t \in Threads : CloseNlo(t)
    \/ \E t \in Users, c \in Ids, timeout \in {"block", "timeout"} : ReceiveBegin(t, c, timeout)
    \/ \E t \in Threads : ReceiveGet(t)
    \/ \E t \in Threads : ReceivePutback(t)
    \/ \E t \in Threads : ReceiveRaise(t)
    \/ \E t \in Users, c \in Ids, em \in {"cb", "cbend"} : SetcallbackBegin(t, c, em)
    \/ \E t \in Threads : SetcallbackLoop(t)
    \/ \E t \in Threads : SetcallbackRegister(t)
    \/ \E c \in Ids : Finalize(c)
    \/ \E m \in PeerMsgs : RcvMessage(m)
    \/ RcvPut
    \/ \E raises \in BOOLEAN : RcvCallback(raises)
    \/ RcvCbErrSend
    \/ RcvCbErrClose
    \/ RcvEOF

Spec == Init /\ [][Next]_vars

\* a thread that is inside an operation takes its next step: the threads of
\* the process are scheduled fairly; a receive() on an empty queue and a
\* waitclose() on an unset latch wait
ThreadStep(t) ==
    \/ SendEmit(t)
    \/ CloseCheck(t)
    \/ CloseSend(t)
    \/ CloseSetClosed(t)
    \/ CloseSetLatch(t)
    \/ ClosePut(t)
    \/ CloseNlo(t)
    \/ ReceiveGet(t)
    \/ ReceivePutback(t)
    \/ ReceiveRaise(t)
    \/ WaitcloseWait(t)
    \/ WaitcloseError(t)

\* the receiver thread, once it holds a message, goes on with it
ReceiverStep ==
    RcvPut

Fairness ==
    /\ \A t \in Users : WF_vars(ThreadStep(t))
    /\ WF_vars(ReceiverStep)

\* what the peer sends before its end goes away: data, and closes with an error
EOFMsgs ==
    {m \in PeerMsgs : m.type \in {"CHANNEL_DATA", "CHANNEL_CLOSE_ERROR"}}

\* the gateway with threads that send, receive, close and wait on queue-mode
\* channels, up to the receiver's shutdown at EOF
NextEOF ==
    \/ NewChannel
    \/ \E t \in Users, c \in Ids : SendBegin(t, c)
    \/ \E t \in Users : SendEmit(t)
    \/ \E t \in Users, c \in Ids : CloseBegin(t, c, "None")
    \/ \E t \in Users : CloseCheck(t)
    \/ \E t \in Users : CloseSend(t)
    \/ \E t \in Users : CloseSetClosed(t)
    \/ \E t \in Users : CloseSetLatch(t)
    \/ \E t \in Users : ClosePut(t)
    \/ \E t \in Users : CloseNlo(t)
    \/ \E t \in Users, c \in Ids, timeout \in {"block", "timeout"} : ReceiveBegin(t, c, timeout)
    \/ \E t \in Users : ReceiveGet(t)
    \/ \E t \in Users : ReceivePutback(t)
    \/ \E t \in Users : ReceiveRaise(t)
    \/ \E t \in Users, c \in Ids, timeout \in {"block", "timeout"} : WaitcloseBegin(t, c, timeout)
    \/ \E t \in Users : WaitcloseWait(t)
    \/ \E t \in Users : WaitcloseError(t)
    \/ \E m \in EOFMsgs : RcvMessage(m)
    \/ RcvPut
    \/ RcvEOF

SpecEOF == Init /\ [][NextEOF]_vars /\ Fairness

\* a thread inside receive(), close() or setcallback() takes its next step
RecvThreadStep(t) ==
    \/ ThreadStep(t)
    \/ SetcallbackLoop(t)
    \/ SetcallbackRegister(t)

\* the receiver thread goes on with the message it holds
RecvReceiverStep ==
    \/ RcvPut
    \/ \E raises \in BOOLEAN : RcvCallback(raises)
    \/ RcvCbErrSend
    \/ RcvCbErrClose

\* the threads of the process are scheduled fairly
FairnessRecv ==
    /\ \A t \in Users : WF_vars(RecvThreadStep(t))
    /\ WF_vars(RecvReceiverStep)

\* the gateway with threads that receive, set callbacks and close, the
\* peer's data and closes, and the receiver's shutdown at EOF
NextRecv ==
    \/ NewChannel
    \/ \E t \in Users, c \in Ids, err \in {"None", "error"} : CloseBegin(t, c, err)
    \/ \E t \in Users : CloseCheck(t)
    \/ \E t \in Users : CloseSend(t)
    \/ \E t \in Users : CloseSetClosed(t)
    \/ \E t \in Users : CloseSetLatch(t)
    \/ \E t \in Users : ClosePut(t)
    \/ \E t \in Users : CloseNlo(t)
    \/ \E t \in Users, c \in Ids, timeout \in {"block", "timeout"} : ReceiveBegin(t, c, timeout)
    \/ \E t \in Users : ReceiveGet(t)
    \/ \E t \in Users : ReceivePutback(t)
    \/ \E t \in Users : ReceiveRaise(t)
    \/ \E t \in Users, c \in Ids, em \in {"cb", "cbend"} : SetcallbackBegin(t, c, em)
    \/ \E t \in Users : SetcallbackLoop(t)
    \/ \E t \in Users : SetcallbackRegister(t)
    \/ \E m \in PeerMsgs : RcvMessage(m)
    \/ RcvPut
    \/ \E raises \in BOOLEAN : RcvCallback(raises)
    \/ RcvCbErrSend
    \/ RcvCbErrClose
    \/ RcvEOF

SpecRecv == Init /\ [][NextRecv]_vars /\ FairnessRecv

\* ------------------------------------------------------- SlaveGateway
\* the threads the executed bodies start
SlaveUsers == {"u1"}

\* the entry of the exec queue that ends the loop
NoTask == 0

\* CHANNEL_EXEC.received (146-149) with SlaveGateway._local_schedulexec (670-671):
\* the peer allocates a fresh id for every remote_exec
RcvExec(c) ==
    /\ rpc = "read"
    /\ receivelock = "free"
    /\ nmsgs < MaxMsgs
    /\ ~finished
    /\ obj[c] = "absent"
    /\ nmsgs' = nmsgs + 1
    /\ channels' = channels \cup {c}
    /\ obj' = [obj EXCEPT ![c] = "live"]
    /\ execqueue' = Append(execqueue, c)
    /\ UNCHANGED <<callbacks, count, finished, gwerror, items, queue, closed, receiveclosed,
                   remoteerrors, executing, thvars, rcvvars, sentdata, obsvars,
                   execfinished, exited, servars, idvars, cbvars, rsvars, wantvars, intvars, stvars, ldvars>>

\* GATEWAY_TERMINATE.received (168-171), _terminate_execution up to its wait
RcvTerminate ==
    /\ rpc = "read"
    /\ receivelock = "free"
    /\ nmsgs < MaxMsgs
    /\ nmsgs' = nmsgs + 1
    /\ execqueue' = Append(execqueue, NoTask)
    /\ rpc' = "term_wait"
    /\ receivelock' = "receiver"
    /\ UNCHANGED <<facvars, chvars, thvars, rmsg, sentdata, obsvars, execfinished,
                   exited, servars, idvars, cbvars, rsvars, wantvars, intvars, stvars, ldvars>>

\* lines 625-635 in the slave: EOF, _finished_receiving, then _terminate_execution
RcvEOFSlave ==
    /\ rpc = "read"
    /\ nmsgs < MaxMsgs
    /\ nmsgs' = nmsgs + 1
    /\ gwerror' = TRUE
    /\ FinishedReceiving
    /\ execqueue' = Append(execqueue, NoTask)
    /\ rpc' = "term_wait"
    /\ UNCHANGED <<count, obj, items, executing, thvars, rmsg, receivelock, sentdata,
                   out, delivered, enqueued, eofraised, closecalled, execfinished,
                   exited, servars, idvars, cbvars, rsvars, wantvars, intvars, stvars, ldvars>>

\* a receiver that never ends the process
TermExitsNever ==
    FALSE

\* lines 681-683: if not self._execfinished.isSet(): os._exit(1)
TermExits ==
    ~execfinished

\* lines 680-683: the wait for _execfinished ends, set or timed out (os._exit
\* ends every thread); after GATEWAY_TERMINATE the SystemExit then ends the
\* receiver (622-624, 633)
RcvTermWait ==
    /\ rpc = "term_wait"
    /\ rpc' = "done"
    /\ rmsg' = NoMsg
    /\ receivelock' = "free"
    /\ IF ~TermExits
       THEN /\ UNCHANGED <<exited, pc>>
            /\ IF finished
               THEN UNCHANGED <<facvars, queue, closed, receiveclosed, remoteerrors,
                                endcalls, removals>>
               ELSE /\ FinishedReceiving
                    /\ UNCHANGED <<count, gwerror>>
       ELSE /\ exited' = TRUE
            /\ pc' = [t \in Threads |-> "exited"]
            /\ UNCHANGED <<facvars, queue, closed, receiveclosed, remoteerrors,
                           endcalls, removals>>
    /\ UNCHANGED <<obj, items, executing, tch, targ, res, nops, peervars, out, delivered,
                   enqueued, eofraised, closecalled, execqueue, execfinished, servars, idvars, cbvars, rsvars, wantvars, intvars, stvars, ldvars>>

\* serve, lines 691-700: the next item of the exec queue; executetask up to
\* line 715, or the end of the loop
ExecGet ==
    /\ pc["exec"] = "idle"
    /\ ~stoploop
    /\ execqueue # <<>>
    /\ execqueue' = Tail(execqueue)
    /\ IF Head(execqueue) = NoTask
       THEN /\ execfinished' = TRUE
            /\ pc' = [pc EXCEPT !["exec"] = "exec_done"]
            /\ UNCHANGED <<executing, tch, targ, res>>
       ELSE /\ executing' = [executing EXCEPT ![Head(execqueue)] = TRUE]
            /\ Goto("exec", "exec_body", Head(execqueue), "None")
            /\ UNCHANGED execfinished
    /\ UNCHANGED <<facvars, obj, items, queue, closed, receiveclosed, remoteerrors,
                   nops, rcvvars, peervars, obsvars, exited, servars, idvars, cbvars, rsvars, wantvars, intvars, stvars, ldvars>>

\* lines 716-734: the body ends, normally or by an exception; _executing is
\* reset and the exec loop goes on to close the channel
ExecBodyEnd(err) ==
    /\ pc["exec"] = "exec_body"
    /\ executing' = [executing EXCEPT ![tch["exec"]] = FALSE]
    /\ Goto("exec", "exec_close", tch["exec"], err)
    /\ UNCHANGED <<facvars, obj, items, queue, closed, receiveclosed, remoteerrors,
                   nops, rcvvars, peervars, obsvars, slvvars, servars, idvars, cbvars, rsvars, wantvars, intvars, stvars, ldvars>>

\* lines 732, 734: channel.close(errortext) or channel.close(), up to its checks
ExecClose ==
    /\ pc["exec"] = "exec_close"
    /\ CloseEnter("exec", tch["exec"], targ["exec"])
    /\ UNCHANGED <<facvars, chvars, nops, rcvvars, peervars, out, delivered, enqueued,
                   eofraised, endcalls, removals, slvvars, servars, idvars, cbvars, rsvars, wantvars, intvars, stvars, ldvars>>

\* ------------------------------------- the slave's main thread, interrupted
\* lines 677-679: interrupt_main(), where the runtime has it: a
\* KeyboardInterrupt is due in the main thread
RcvInterruptMain ==
    /\ rpc = "term_wait"
    /\ interrupt = "no"
    /\ interrupt' = "pending"
    /\ UNCHANGED <<facvars, chvars, thvars, rcvvars, peervars, obsvars, slvvars,
                   servars, idvars, cbvars, rsvars, wantvars, stvars, stoploop, ldvars>>

\* the body calls channel.setcallback (lines 246-253): it waits for the
\* receive lock, then swaps the queue out
ExecSetcallbackBegin(em) ==
    /\ pc["exec"] = "exec_body"
    /\ receivelock = "free"
    /\ items[tch["exec"]] = "queue"
    /\ items' = [items EXCEPT ![tch["exec"]] = "None"]
    /\ receivelock' = "exec"
    /\ snap' = [snap EXCEPT ![tch["exec"]] = queue[tch["exec"]]]
    /\ pc' = [pc EXCEPT !["exec"] = "setcb_loop"]
    /\ targ' = [targ EXCEPT !["exec"] = em]
    /\ endwanted' = IF em = "cbend" THEN endwanted \cup {tch["exec"]} ELSE endwanted
    /\ UNCHANGED <<facvars, obj, queue, closed, receiveclosed, remoteerrors, executing,
                   tch, res, nops, rpc, rmsg, peervars, obsvars, slvvars, servars,
                   idvars, fngot, stvars, intvars, rsvars, ldvars>>

\* the KeyboardInterrupt is raised in the main thread, wherever it is: in
\* the loop of serve (691-700, 701-702), in the body or a call of it (the
\* finally of 270 and of 719-720, then 725-727), or in the channel.close()
\* that follows the body (732, 734), which nothing guards
ExecInterrupt ==
    /\ interrupt = "pending"
    /\ interrupt' = "raised"
    /\ pc["exec"] \notin {"exec_done", "exited"}
    /\ IF pc["exec"] \in {"exec_body", "setcb_loop", "setcb_reg"}
       THEN /\ executing' = [executing EXCEPT ![tch["exec"]] = FALSE]
            /\ receivelock' = IF receivelock = "exec" THEN "free" ELSE receivelock
            /\ Goto("exec", "exec_close", tch["exec"], "error")
            /\ stoploop' = TRUE
            /\ UNCHANGED execfinished
       ELSE /\ execfinished' = TRUE
            /\ pc' = [pc EXCEPT !["exec"] = "exec_done"]
            /\ tch' = [tch EXCEPT !["exec"] = 0]
            /\ targ' = [targ EXCEPT !["exec"] = "None"]
            /\ UNCHANGED <<executing, receivelock, res, stoploop>>
    /\ UNCHANGED <<facvars, obj, items, queue, closed, receiveclosed, remoteerrors,
                   nops, rpc, rmsg, peervars, obsvars, execqueue, exited, servars,
                   idvars, cbvars, rsvars, wantvars, stvars, ldvars>>

\* lines 696-702: the exception of executetask leaves the loop
ExecLeave ==
    /\ pc["exec"] = "idle"
    /\ stoploop
    /\ execfinished' = TRUE
    /\ pc' = [pc EXCEPT !["exec"] = "exec_done"]
    /\ UNCHANGED <<facvars, chvars, tch, targ, res, nops, rcvvars, peervars, obsvars,
                   execqueue, exited, servars, idvars, cbvars, rsvars, wantvars, stvars, intvars, ldvars>>

\* the slave up to its end: tasks, data for their channels, bodies that set
\* a callback, GATEWAY_TERMINATE or EOF
NextTerm ==
    \/ \E c \in Ids : RcvExec(c)
    \/ \E m \in EOFMsgs : RcvMessage(m)
    \/ RcvPut
    \/ \E raises \in BOOLEAN : RcvCallback(raises)
    \/ RcvCbErrSend
    \/ RcvCbErrClose
    \/ RcvTerminate
    \/ RcvEOFSlave
    \/ RcvInterruptMain
    \/ RcvTermWait
    \/ ExecGet
    \/ \E em \in {"cb", "cbend"} : ExecSetcallbackBegin(em)
    \/ SetcallbackLoop("exec")
    \/ SetcallbackRegister("exec")
    \/ \E err \in {"None", "error"} : ExecBodyEnd(err)
    \/ ExecInterrupt
    \/ ExecLeave
    \/ ExecClose
    \/ CloseCheck("exec")
    \/ CloseSend("exec")
    \/ CloseSetClosed("exec")
    \/ CloseSetLatch("exec")
    \/ ClosePut("exec")
    \/ CloseNlo("exec")

\* the steps of the main thread outside the bodies it runs
ExecLoopStep ==
    \/ ExecGet
    \/ ExecLeave
    \/ ExecClose
    \/ CloseCheck("exec")
    \/ CloseSend("exec")
    \/ CloseSetClosed("exec")
    \/ CloseSetLatch("exec")
    \/ ClosePut("exec")
    \/ CloseNlo("exec")

\* the wait of line 680 ends after ten seconds at most and the threads are
\* scheduled; a body is not bound to end
FairnessTerm ==
    /\ WF_vars(RcvTermWait)
    /\ WF_vars(ExecLoopStep)

SpecTerm == InitSlave /\ [][NextTerm]_vars /\ FairnessTerm

\* ------------------------------------------------------ STATUS.received
\* a handler that gets itself a channel for the id it replies on
StatusChannelsNew(id) ==
    channels \cup {id}

\* lines 131-144: _channels as the handler leaves it; the id of the message
\* is used for the reply, no channel object is made for it
StatusChannels(id) ==
    channels

\* line 135: active_channels = gateway._channelfactory.channels(), read under
\* the receive lock
RcvStatus(c) ==
    /\ rpc = "read"
    /\ receivelock = "free"
    /\ nmsgs < MaxMsgs
    /\ nmsgs' = nmsgs + 1
    /\ rpc' = "st_scan"
    /\ rmsg' = [type |-> "STATUS", id |-> c, data |-> 0]
    /\ receivelock' = "receiver"
    /\ stchans' = channels
    /\ sttodo' = channels
    /\ stnumexec' = 0
    /\ UNCHANGED <<facvars, chvars, thvars, sentdata, obsvars, slvvars, servars,
                   idvars, cbvars, rsvars, wantvars, intvars, replies, ldvars>>

\* lines 137-139: one turn of the loop over active_channels
RcvStatusScan(c) ==
    /\ rpc = "st_scan"
    /\ c \in sttodo
    /\ sttodo' = sttodo \ {c}
    /\ stnumexec' = IF executing[c] THEN stnumexec + 1 ELSE stnumexec
    /\ UNCHANGED <<facvars, chvars, thvars, rcvvars, peervars, obsvars, slvvars,
                   servars, idvars, cbvars, rsvars, wantvars, intvars, stchans, replies, ldvars>>

\* lines 140-144: the dict with qsize(), and the CHANNEL_DATA sent back
RcvStatusSend ==
    /\ rpc = "st_scan"
    /\ sttodo = {}
    /\ GwSend(rmsg.id, "CHANNEL_DATA")
    /\ replies' = Append(replies,
                         [id |-> rmsg.id,
                          execqsize |-> Len(execqueue),
                          numchannels |-> Cardinality(stchans),
                          numexecuting |-> stnumexec,
                          qsize |-> Len(execqueue),
                          mapped |-> Cardinality(channels),
                          running |-> Cardinality({c \in Ids : executing[c]}),
                          startmapped |-> Cardinality(stchans)])
    /\ channels' = StatusChannels(rmsg.id)
    /\ stchans' = {}
    /\ stnumexec' = 0
    /\ RcvDone
    /\ UNCHANGED <<callbacks, count, finished, gwerror, chvars, thvars, peervars,
                   delivered, enqueued, eofraised, closecalled, endcalls, removals,
                   slvvars, servars, idvars, cbvars, rsvars, wantvars, intvars, sttodo, ldvars>>

NextSlave ==
    \/ \E t \in SlaveUsers, c \in Ids : SendBegin(t, c)
    \/ \E t \in Threads : SendEmit(t)
    \/ \E t \in SlaveUsers, c \in Ids, err \in {"None", "error"} : CloseBegin(t, c, err)
    \/ \E t \in Threads : CloseCheck(t)
    \/ \E t \in Threads : CloseSend(t)
    \/ \E t \in Threads : CloseSetClosed(t)
    \/ \E t \in Threads : CloseSetLatch(t)
    \/ \E t \in Threads : ClosePut(t)
    \/ \E t \in Threads : CloseNlo(t)
    \/ \E t \in SlaveUsers, c \in Ids, timeout \in {"block", "timeout"} : ReceiveBegin(t, c, timeout)
    \/ \E t \in Threads : ReceiveGet(t)
    \/ \E t \in Threads : ReceivePutback(t)
    \/ \E t \in Threads : ReceiveRaise(t)
    \/ \E t \in SlaveUsers, c \in Ids, em \in {"cb", "cbend"} : SetcallbackBegin(t, c, em)
    \/ \E t \in Threads : SetcallbackLoop(t)
    \/ \E t \in Threads : SetcallbackRegister(t)
    \/ \E c \in Ids : Finalize(c)
    \/ \E m \in PeerMsgs : RcvMessage(m)
    \/ RcvPut
    \/ \E raises \in BOOLEAN : RcvCallback(raises)
    \/ RcvCbErrSend
    \/ RcvCbErrClose
    \/ \E c \in Ids : RcvExec(c)
    \/ RcvTerminate
    \/ RcvEOFSlave
    \/ RcvTermWait
    \/ ExecGet
    \/ \E err \in {"None", "error"} : ExecBodyEnd(err)
    \/ ExecClose

SpecSlave == InitSlave /\ [][NextSlave]_vars

\* ------------------------------------------ ids that arrive from the peer
\* a new(id) that maps nothing
NewMapsNothing(id) ==
    channels

\* lines 454-457: channel = self._channels[id], or on KeyError
\* channel = self._channels[id] = Channel(self.gateway, id)
NewMaps(id) ==
    channels \cup {id}

\* Message.readfrom (116-117) reads a message whose payload holds a channel
\* reference: Unserializer.load_channel (891-894) calls new(id) with the id
\* of the reference. A mapped id gives the mapped channel; for any other id a
\* Channel is made (Channel.__init__, lines 224-231: open, its own queue),
\* and an earlier channel object of the id, which nothing uses any more, is
\* not followed further
RcvLoadChannel(c) ==
    /\ rpc = "read"
    /\ receivelock = "free"
    /\ nmsgs < MaxMsgs
    /\ ~finished
    /\ c \notin channels => Unreferenced(c)
    /\ nmsgs' = nmsgs + 1
    /\ channels' = NewMaps(c)
    /\ IF c \in channels
       THEN UNCHANGED chvars
       ELSE /\ obj' = [obj EXCEPT ![c] = "live"]
            /\ items' = [items EXCEPT ![c] = "queue"]
            /\ queue' = [queue EXCEPT ![c] = <<>>]
            /\ closed' = [closed EXCEPT ![c] = FALSE]
            /\ receiveclosed' = [receiveclosed EXCEPT ![c] = FALSE]
            /\ remoteerrors' = [remoteerrors EXCEPT ![c] = <<>>]
            /\ executing' = [executing EXCEPT ![c] = FALSE]
    /\ UNCHANGED <<callbacks, count, finished, gwerror, thvars, rcvvars, sentdata, obsvars,
                   slvvars, servars, idvars, cbvars, rsvars, wantvars, intvars, stvars, ldvars>>

\* the slave's receiver with the messages that carry an id, the exec loop
\* and a thread that closes channels
NextNew ==
    \/ \E c \in Ids : RcvLoadChannel(c)
    \/ \E c \in Ids : RcvExec(c)
    \/ \E m \in PeerMsgs : RcvMessage(m)
    \/ RcvPut
    \/ ExecGet
    \/ \E err \in {"None", "error"} : ExecBodyEnd(err)
    \/ ExecClose
    \/ \E t \in SlaveUsers, c \in Ids, err \in {"None", "error"} : CloseBegin(t, c, err)
    \/ \E t \in Threads : CloseCheck(t)
    \/ \E t \in Threads : CloseSend(t)
    \/ \E t \in Threads : CloseSetClosed(t)
    \/ \E t \in Threads : CloseSetLatch(t)
    \/ \E t \in Threads : ClosePut(t)
    \/ \E t \in Threads : CloseNlo(t)
    \/ \E c \in Ids : Finalize(c)

SpecNew == InitSlave /\ [][NextNew]_vars

\* the slave with STATUS messages among those it receives, the bodies it
\* runs doing nothing with their channels
NextStatus ==
    \/ \E c \in Ids : RcvExec(c)
    \/ \E c \in Ids : RcvStatus(c)
    \/ \E c \in Ids : RcvStatusScan(c)
    \/ RcvStatusSend
    \/ \E m \in PeerMsgs : RcvMessage(m)
    \/ RcvPut
    \/ RcvTerminate
    \/ RcvTermWait
    \/ ExecGet
    \/ \E err \in {"None", "error"} : ExecBodyEnd(err)
    \/ ExecClose
    \/ \E t \in Threads : CloseCheck(t)
    \/ \E t \in Threads : CloseSend(t)
    \/ \E t \in Threads : CloseSetClosed(t)
    \/ \E t \in Threads : CloseSetLatch(t)
    \/ \E t \in Threads : ClosePut(t)
    \/ \E t \in Threads : CloseNlo(t)

SpecStatus == InitSlave /\ [][NextStatus]_vars

\* --------------------------------------------------------- Serializer
\* the values that are saved: k is the name of the Python type, n the number
\* of an int (the truth value of a bool, the id of a Channel), s the bytes
\* of a bytes object or the code points of a str, items the elements of a
\* container (a dict's keys and values in turn), in iteration order
NoneV ==
    [k |-> "NoneType", n |-> 0, s |-> <<>>, items |-> <<>>]

BoolV(b) ==
    [k |-> "bool", n |-> IF b THEN 1 ELSE 0, s |-> <<>>, items |-> <<>>]

\* an int inside the signed 32-bit range
IntV(n) ==
    [k |-> "int", n |-> n, s |-> <<>>, items |-> <<>>]

\* an int outside the signed 32-bit range: its sign (1, -1) and the decimal
\* digits of its magnitude
LongV(sign, digits) ==
    [k |-> "int", n |-> sign, s |-> digits, items |-> <<>>]

BytesV(bs) ==
    [k |-> "bytes", n |-> 0, s |-> bs, items |-> <<>>]

TextV(cps) ==
    [k |-> "str", n |-> 0, s |-> cps, items |-> <<>>]

ChannelV(id) ==
    [k |-> "Channel", n |-> id, s |-> <<>>, items |-> <<>>]

\* an object of a type with no save_ method
ObjV ==
    [k |-> "object", n |-> 0, s |-> <<>>, items |-> <<>>]

ListV(vs) ==
    [k |-> "list", n |-> 0, s |-> <<>>, items |-> vs]

TupleV(vs) ==
    [k |-> "tuple", n |-> 0, s |-> <<>>, items |-> vs]

DictV(kvs) ==
    [k |-> "dict", n |-> 0, s |-> <<>>, items |-> kvs]

SetV(vs) ==
    [k |-> "set", n |-> 0, s |-> <<>>, items |-> vs]

FrozensetV(vs) ==
    [k |-> "frozenset", n |-> 0, s |-> <<>>, items |-> vs]

\* what a save does, in order: calls of self._write(x), or a raise; x is an
\* opcode, the four bytes of an int (n), or a byte string (s)
Op(name) ==
    [op |-> name, n |-> 0, s |-> <<>>]

\* SerializationError
Raise ==
    [op |-> "RAISE", n |-> 0, s |-> <<>>]

\* struct.error
StructError ==
    [op |-> "STRUCT_ERROR", n |-> 0, s |-> <<>>]

\* i > FOUR_BYTE_INT_MAX for a Python int
IntGtMax(v) ==
    IF v.s = <<>> THEN v.n > FOUR_BYTE_INT_MAX ELSE v.n > 0

\* struct.pack("!i", i) for i in the signed 32-bit range: the four bytes of
\* the two's complement, most significant first
Pack4(i) ==
    LET m == IF i >= 0 THEN i ELSE (i + FOUR_BYTE_INT_MAX) + 1
        top == m \div 16777216
    IN  <<(IF i >= 0 THEN top ELSE 128 + top), (m \div 65536) % 256,
          (m \div 256) % 256, m % 256>>

\* line 1007: struct.pack("!i", i), which raises struct.error outside the
\* signed 32-bit range
PackInt4(v) ==
    IF v.s # <<>> THEN <<StructError>> ELSE <<[op |-> "int4", n |-> 0, s |-> Pack4(v.n)]>>

\* _write_int4 (1003-1007) of a Python int
WriteInt4V(v) ==
    IF IntGtMax(v) THEN <<Raise>> ELSE PackInt4(v)

\* _write_int4 of a length, an index or an id
WriteInt4(i) ==
    WriteInt4V(IntV(i))

\* _write_byte_sequence (981-983)
WriteByteSequence(bs) ==
    WriteInt4(Len(bs)) \o <<[op |-> "bytes", n |-> 0, s |-> bs]>>

\* s.encode("utf-8") for code points below 65536
RECURSIVE Utf8Encode(_)
Utf8Encode(cps) ==
    IF cps = <<>> THEN <<>>
    ELSE LET cp == Head(cps) IN
         (IF cp < 128 THEN <<cp>>
          ELSE IF cp < 2048 THEN <<192 + (cp \div 64), 128 + (cp % 64)>>
          ELSE <<224 + (cp \div 4096), 128 + ((cp \div 64) % 64), 128 + (cp % 64)>>)
         \o Utf8Encode(Tail(cps))

\* a lone surrogate cannot be encoded (UnicodeEncodeError)
Encodable(cps) ==
    \A i \in DOMAIN cps : cps[i] \notin 55296..57343

\* _write_unicode_string (974-979)
WriteUnicodeString(cps) ==
    IF Encodable(cps) THEN WriteByteSequence(Utf8Encode(cps)) ELSE <<Raise>>

\* str(i).encode("ascii") of an int: "-" and the digits
Ascii(v) ==
    (IF v.n < 0 THEN <<45>> ELSE <<>>) \o [i \in DOMAIN v.s |-> 48 + v.s[i]]

\* _save_integral (985-991) for save_int
SaveIntegral(v) ==
    IF ~IntGtMax(v)
    THEN <<Op("INT")>> \o WriteInt4V(v)
    ELSE <<Op("LONGINT")>> \o WriteByteSequence(Ascii(v))

\* _save (936-946) and the save_ methods
RECURSIVE SaveValue(_)
RECURSIVE SaveItems(_, _)
RECURSIVE SaveSetitems(_, _)
RECURSIVE SaveDictitems(_, _)
SaveValue(v) ==
    CASE v.k = "NoneType" -> <<Op("NONE")>>
      [] v.k = "bool" -> <<Op(IF v.n = 1 THEN "TRUE" ELSE "FALSE")>>
      [] v.k = "int" -> SaveIntegral(v)
      [] v.k = "bytes" -> <<Op("BYTES")>> \o WriteByteSequence(v.s)
      [] v.k = "str" -> <<Op("PY3STRING")>> \o WriteUnicodeString(v.s)
      [] v.k = "list" -> <<Op("NEWLIST")>> \o WriteInt4(Len(v.items)) \o SaveSetitems(v.items, 1)
      [] v.k = "dict" -> <<Op("NEWDICT")>> \o SaveDictitems(v.items, 1)
      [] v.k = "tuple" -> SaveItems(v.items, 1) \o <<Op("BUILDTUPLE")>> \o WriteInt4(Len(v.items))
      [] v.k = "set" -> SaveItems(v.items, 1) \o <<Op("SET")>> \o WriteInt4(Len(v.items))
      [] v.k = "frozenset" -> SaveItems(v.items, 1) \o <<Op("FROZENSET")>> \o WriteInt4(Len(v.items))
      [] v.k = "Channel" -> <<Op("CHANNEL")>> \o WriteInt4(v.n)
      [] OTHER -> <<Raise>>

\* the loop of save_tuple (1026-1027) and of _write_set (1032-1033)
SaveItems(vs, i) ==
    IF i > Len(vs) THEN <<>> ELSE SaveValue(vs[i]) \o SaveItems(vs, i + 1)

\* save_list's loop with _write_setitem (1012-1018)
SaveSetitems(vs, i) ==
    IF i > Len(vs) THEN <<>>
    ELSE SaveValue(IntV(i - 1)) \o SaveValue(vs[i]) \o <<Op("SETITEM")>>
         \o SaveSetitems(vs, i + 1)

\* save_dict's loop with _write_setitem (1020-1023)
SaveDictitems(kvs, i) ==
    IF i > Len(kvs) THEN <<>>
    ELSE SaveValue(kvs[i]) \o SaveValue(kvs[i + 1]) \o <<Op("SETITEM")>>
         \o SaveDictitems(kvs, i + 2)

\* what is run up to the first raise
RECURSIVE UpToRaise(_)
UpToRaise(ops) ==
    IF ops = <<>> THEN <<>>
    ELSE IF Head(ops) \in {Raise, StructError} THEN <<Head(ops)>>
    ELSE <<Head(ops)>> \o UpToRaise(Tail(ops))

\* Message.writeto (113-114) and Serializer.save lines 929-930
SaveOps(msgtype, channelid, data) ==
    UpToRaise(SaveValue(TupleV(<<IntV(msgtype), IntV(channelid), data>>)) \o <<Op("STOP")>>)

\* the channel id the threads send on, and the items they send
SerIds == {STARTCOUNT}

Items == {IntV(1), ListV(<<ObjV>>)}

\* BaseGateway._send (642-645) of a CHANNEL_DATA message, up to the call of
\* Serializer.save
SerSend(t, c, item) ==
    /\ pc[t] = "idle"
    /\ t = "u1" \/ pc["u1"] # "idle"
    /\ nops < MaxOps
    /\ nops' = nops + 1
    /\ Goto(t, "sv_new", c, "None")
    /\ nsaves' = nsaves + 1
    /\ sv' = [sv EXCEPT ![t] = [toks |-> SaveOps(CHANNEL_DATA, c, item),
                                i |-> 1, ser |-> nsaves + 1]]
    /\ UNCHANGED <<facvars, chvars, rcvvars, peervars, obsvars, slvvars,
                   streamlist, wfn, lists, wire, failedsaves, idvars, cbvars, rsvars, wantvars, intvars, stvars, ldvars>>

\* line 925: self.streamlist = []
SaveNew(t) ==
    /\ pc[t] = "sv_new"
    /\ lists' = Append(lists, <<>>)
    /\ streamlist' = Len(lists) + 1
    /\ Step(t, "sv_bind")
    /\ UNCHANGED <<facvars, chvars, nops, rcvvars, peervars, obsvars, slvvars,
                   wfn, wire, sv, nsaves, failedsaves, idvars, cbvars, rsvars, wantvars, intvars, stvars, ldvars>>

\* line 926: self._write = self.streamlist.append
SaveBind(t) ==
    /\ pc[t] = "sv_bind"
    /\ wfn' = streamlist
    /\ Step(t, "sv_write")
    /\ UNCHANGED <<facvars, chvars, nops, rcvvars, peervars, obsvars, slvvars,
                   streamlist, lists, wire, sv, nsaves, failedsaves, idvars, cbvars, rsvars, wantvars, intvars, stvars, ldvars>>

\* one self._write(x) of lines 929-930, or the raise of SerializationError
SaveWrite(t) ==
    /\ pc[t] = "sv_write"
    /\ LET x == sv[t].toks[sv[t].i] IN
       IF x = Raise
       THEN /\ failedsaves' = failedsaves \cup {sv[t].ser}
            /\ sv' = [sv EXCEPT ![t] = NoSave]
            /\ Return(t, "SerializationError")
            /\ UNCHANGED lists
       ELSE /\ lists' = [lists EXCEPT ![wfn] =
                            Append(@, [op |-> x.op, n |-> x.n, s |-> x.s, by |-> sv[t].ser])]
            /\ sv' = [sv EXCEPT ![t].i = @ + 1]
            /\ Step(t, IF x = Op("STOP") THEN "sv_join" ELSE "sv_write")
            /\ UNCHANGED failedsaves
    /\ UNCHANGED <<facvars, chvars, nops, rcvvars, peervars, obsvars, slvvars,
                   streamlist, wfn, wire, nsaves, idvars, cbvars, rsvars, wantvars, intvars, stvars, ldvars>>

\* lines 933-934: the join of self.streamlist (IndexError on an empty list)
\* and the one write to the transport
SaveJoin(t) ==
    /\ pc[t] = "sv_join"
    /\ IF lists[streamlist] = <<>>
       THEN /\ Return(t, "IndexError")
            /\ UNCHANGED wire
       ELSE /\ wire' = Append(wire, lists[streamlist])
            /\ Return(t, "ok")
    /\ sv' = [sv EXCEPT ![t] = NoSave]
    /\ UNCHANGED <<facvars, chvars, nops, rcvvars, peervars, obsvars, slvvars,
                   streamlist, wfn, lists, nsaves, failedsaves, idvars, cbvars, rsvars, wantvars, intvars, stvars, ldvars>>

NextSer ==
    \/ \E t \in Users, c \in SerIds, item \in Items : SerSend(t, c, item)
    \/ \E t \in Users : SaveNew(t)
    \/ \E t \in Users : SaveBind(t)
    \/ \E t \in Users : SaveWrite(t)
    \/ \E t \in Users : SaveJoin(t)

SpecSer == Init /\ [][NextSer]_vars

\* ------------------------------------------------------- Unserializer
\* struct.unpack("!i", bs)[0]
Unpack4(bs) ==
    LET m == (bs[1] % 128) * 16777216 + bs[2] * 65536 + bs[3] * 256 + bs[4]
    IN  IF bs[1] >= 128 THEN (m - FOUR_BYTE_INT_MAX) - 1 ELSE m

\* as_bytes.decode("utf-8") for code points below 65536
RECURSIVE Utf8Decode(_)
Utf8Decode(bs) ==
    IF bs = <<>> THEN <<>>
    ELSE IF bs[1] < 128
    THEN <<bs[1]>> \o Utf8Decode(SubSeq(bs, 2, Len(bs)))
    ELSE IF bs[1] < 224
    THEN <<(bs[1] - 192) * 64 + (bs[2] - 128)>> \o Utf8Decode(SubSeq(bs, 3, Len(bs)))
    ELSE <<(bs[1] - 224) * 4096 + (bs[2] - 128) * 64 + (bs[3] - 128)>>
         \o Utf8Decode(SubSeq(bs, 4, Len(bs)))

\* the decimal digits of FOUR_BYTE_INT_MAX
MaxDigits ==
    <<2, 1, 4, 7, 4, 8, 3, 6, 4, 7>>

\* d <= e for digit sequences without leading zeros
RECURSIVE DigitsLeq(_, _)
DigitsLeq(d, e) ==
    IF Len(d) # Len(e) THEN Len(d) < Len(e)
    ELSE IF d = <<>> THEN TRUE
    ELSE IF Head(d) # Head(e) THEN Head(d) < Head(e)
    ELSE DigitsLeq(Tail(d), Tail(e))

\* the number of a digit sequence that is at most MaxDigits
RECURSIVE DigitsValue(_, _)
DigitsValue(d, acc) ==
    IF d = <<>> THEN acc ELSE DigitsValue(Tail(d), acc * 10 + Head(d))

\* int(s) of line 807 for the ASCII bytes of a decimal number
ParseInt(bs) ==
    LET neg == bs # <<>> /\ bs[1] = 45
        ds == IF neg THEN Tail(bs) ELSE bs
        d == [i \in DOMAIN ds |-> ds[i] - 48]
    IN  IF DigitsLeq(d, MaxDigits)
        THEN IntV(IF neg THEN 0 - DigitsValue(d, 0) ELSE DigitsValue(d, 0))
        ELSE LongV(IF neg THEN -1 ELSE 1, d)

\* == of Python for keys and elements: a bool equals the int of its value
PyEq(a, b) ==
    IF a.k \in {"bool", "int"} /\ b.k \in {"bool", "int"}
    THEN a.n = b.n /\ a.s = b.s
    ELSE a = b

\* a == b of Python between two values of one type: sequences item by
\* item, sets and dicts whatever the order of iteration
RECURSIVE ValEq(_, _)
ValEq(a, b) ==
    /\ a.k = b.k
    /\ a.n = b.n
    /\ a.s = b.s
    /\ Len(a.items) = Len(b.items)
    /\ CASE a.k \in {"set", "frozenset"} ->
              \A i \in DOMAIN a.items : \E j \in DOMAIN b.items :
                  ValEq(a.items[i], b.items[j])
         [] a.k = "dict" ->
              \A i \in DOMAIN a.items : i % 2 = 1 =>
                  \E j \in DOMAIN b.items :
                      /\ j % 2 = 1
                      /\ ValEq(a.items[i], b.items[j])
                      /\ ValEq(a.items[i + 1], b.items[j + 1])
         [] OTHER ->
              \A i \in DOMAIN a.items : ValEq(a.items[i], b.items[i])

\* the elements of a tuple as a set keeps them: one of each
RECURSIVE Dedup(_, _)
Dedup(vs, seen) ==
    IF vs = <<>> THEN seen
    ELSE IF \E i \in DOMAIN seen : PyEq(seen[i], Head(vs))
    THEN Dedup(Tail(vs), seen)
    ELSE Dedup(Tail(vs), Append(seen, Head(vs)))

\* cont[key] = value of line 865, where it does not raise
SetItem(cont, key, value) ==
    IF cont.k = "list"
    THEN [cont EXCEPT !.items[key.n + 1] = value]
    ELSE IF \E i \in DOMAIN cont.items : i % 2 = 1 /\ PyEq(cont.items[i], key)
    THEN LET i == CHOOSE j \in DOMAIN cont.items : j % 2 = 1 /\ PyEq(cont.items[j], key)
         IN  [cont EXCEPT !.items[i + 1] = value]
    ELSE [cont EXCEPT !.items = @ \o <<key, value>>]

\* whether cont[key] = value raises: a list index that is no int or is out
\* of range, or something that takes no item
SetItemRaises(cont, key) ==
    CASE cont.k = "list" -> ~(key.k \in {"int", "bool"} /\ key.s = <<>>
                              /\ key.n + 1 \in DOMAIN cont.items)
      [] cont.k = "dict" -> key.k \in {"list", "dict", "set"}
      [] OTHER -> TRUE

\* the values given to save() in the model: every kind of the supported
\* ones, the ints on both sides of both ends of the signed 32-bit range
LoadInts ==
    {IntV(0), IntV(-1), IntV(FOUR_BYTE_INT_MAX), IntV((0 - FOUR_BYTE_INT_MAX) - 1),
     LongV(1, <<2, 1, 4, 7, 4, 8, 3, 6, 4, 8>>), LongV(-1, <<2, 1, 4, 7, 4, 8, 3, 6, 4, 9>>)}

LoadAtoms ==
    LoadInts \cup {NoneV, BoolV(TRUE), BoolV(FALSE), BytesV(<<>>), BytesV(<<0, 255>>),
                   TextV(<<>>), TextV(<<97, 233, 8364>>), ChannelV(STARTCOUNT)}

LoadFlat ==
    {ListV(<<>>), TupleV(<<>>), DictV(<<>>), SetV(<<>>), FrozensetV(<<>>)}
      \cup {ListV(<<a>>) : a \in LoadAtoms}
      \cup {TupleV(<<a>>) : a \in LoadAtoms}
      \cup {SetV(<<a>>) : a \in LoadAtoms}
      \cup {FrozensetV(<<a>>) : a \in LoadAtoms}
      \cup {DictV(<<a, IntV(0)>>) : a \in LoadAtoms}
      \cup {ListV(<<NoneV, IntV(-1), TextV(<<97>>)>>),
            TupleV(<<BoolV(TRUE), BytesV(<<7>>)>>),
            SetV(<<IntV(-1), TextV(<<97>>)>>),
            DictV(<<TextV(<<97>>), IntV(-1), IntV(0), NoneV>>)}

LoadNested ==
    {ListV(<<c>>) : c \in LoadFlat}
      \cup {TupleV(<<c, IntV(0)>>) : c \in LoadFlat}
      \cup {DictV(<<TextV(<<97>>), c>>) : c \in LoadFlat}
      \cup {SetV(<<TupleV(<<IntV(0)>>), FrozensetV(<<IntV(-1)>>)>>),
            FrozensetV(<<TupleV(<<>>), FrozensetV(<<>>)>>),
            DictV(<<TupleV(<<IntV(0), TextV(<<97>>)>>), ListV(<<DictV(<<>>)>>)>>),
            TupleV(<<TupleV(<<>>), ListV(<<TupleV(<<>>)>>)>>)}

LoadValues ==
    LoadAtoms \cup LoadFlat \cup LoadNested

\* save(obj) into an empty stream (923-934): with WRITE_ON_SUCCESS nothing
\* is written when _save raises
Save(v) ==
    /\ lpc = "idle"
    /\ saved' = v
    /\ LET toks == UpToRaise(SaveValue(v) \o <<Op("STOP")>>)
           last == toks[Len(toks)]
       IN  IF last = Raise
           THEN lpc' = "SerializationError" /\ UNCHANGED stream
           ELSE IF last = StructError
           THEN lpc' = "struct.error" /\ UNCHANGED stream
           ELSE lpc' = "load" /\ stream' = toks
    /\ UNCHANGED <<facvars, chvars, thvars, rcvvars, peervars, obsvars, slvvars,
                   servars, idvars, cbvars, rsvars, wantvars, intvars, stvars, pos, stack, loaded>>

\* the opcode at the read position (776-783)
AtOp(name) ==
    /\ lpc = "load"
    /\ pos <= Len(stream)
    /\ stream[pos] = Op(name)

\* what no loader touches
LoadFrame ==
    UNCHANGED <<facvars, chvars, thvars, rcvvars, peervars, obsvars, slvvars,
                servars, idvars, cbvars, rsvars, wantvars, intvars, stvars, saved, stream, loaded>>

\* _read_int4 (825-826) at position p
ReadInt4(p) ==
    Unpack4(stream[p].s)

\* _read_byte_string (828-831) at position p
ReadByteString(p) ==
    SubSeq(stream[p + 1].s, 1, ReadInt4(p))

\* a loader that pushes x and has read k items after its opcode
Push(x, k) ==
    /\ stack' = Append(stack, x)
    /\ pos' = pos + 1 + k
    /\ UNCHANGED lpc
    /\ LoadFrame

load_none ==
    AtOp("NONE") /\ Push(NoneV, 0)

load_true ==
    AtOp("TRUE") /\ Push(BoolV(TRUE), 0)

load_false ==
    AtOp("FALSE") /\ Push(BoolV(FALSE), 0)

load_int ==
    AtOp("INT") /\ Push(IntV(ReadInt4(pos + 1)), 1)

load_longint ==
    AtOp("LONGINT") /\ Push(ParseInt(ReadByteString(pos + 1)), 2)

load_py3string ==
    AtOp("PY3STRING") /\ Push(TextV(Utf8Decode(ReadByteString(pos + 1))), 2)

load_bytes ==
    AtOp("BYTES") /\ Push(BytesV(ReadByteString(pos + 1)), 2)

load_newlist ==
    AtOp("NEWLIST") /\ Push(ListV([i \in 1..ReadInt4(pos + 1) |-> NoneV]), 1)

load_newdict ==
    AtOp("NEWDICT") /\ Push(DictV(<<>>), 0)

load_setitem ==
    /\ AtOp("SETITEM")
    /\ LET n == Len(stack) IN
       IF n < 3
       THEN lpc' = "UnserializationError" /\ UNCHANGED <<pos, stack>>
       ELSE IF SetItemRaises(stack[n - 2], stack[n - 1])
       THEN lpc' = "TypeError" /\ UNCHANGED <<pos, stack>>
       ELSE /\ stack' = Append(SubSeq(stack, 1, n - 3),
                               SetItem(stack[n - 2], stack[n - 1], stack[n]))
            /\ pos' = pos + 1
            /\ UNCHANGED lpc
    /\ LoadFrame

\* _load_tuple (870-877): the tuple it returns
LoadTupleItems ==
    LET length == ReadInt4(pos + 1)
        n == Len(stack)
    IN  IF length # 0
        THEN SubSeq(stack, IF length > n THEN 1 ELSE n - length + 1, n)
        ELSE <<>>

\* _load_tuple (870-877): the stack it leaves
LoadTupleRest ==
    LET length == ReadInt4(pos + 1)
        n == Len(stack)
    IN  IF length # 0
        THEN SubSeq(stack, 1, IF length > n THEN 0 ELSE n - length)
        ELSE stack

\* a loader of load_buildtuple's kind: the tuple is made into x and pushed
PushBuilt(x) ==
    /\ stack' = Append(LoadTupleRest, x)
    /\ pos' = pos + 2
    /\ UNCHANGED lpc
    /\ LoadFrame

load_buildtuple ==
    AtOp("BUILDTUPLE") /\ PushBuilt(TupleV(LoadTupleItems))

load_set ==
    AtOp("SET") /\ PushBuilt(SetV(Dedup(LoadTupleItems, <<>>)))

load_frozenset ==
    AtOp("FROZENSET") /\ PushBuilt(FrozensetV(Dedup(LoadTupleItems, <<>>)))

\* load_channel (891-894) with ChannelFactory.new(id) (445-460)
load_channel ==
    /\ AtOp("CHANNEL")
    /\ LET id == ReadInt4(pos + 1) IN
       IF finished
       THEN lpc' = "IOError" /\ UNCHANGED <<pos, stack, channels, obj>>
       ELSE /\ channels' = channels \cup {id}
            /\ obj' = [c \in Ids |-> IF c = id /\ c \notin channels THEN "live" ELSE obj[c]]
            /\ stack' = Append(stack, ChannelV(id))
            /\ pos' = pos + 2
            /\ UNCHANGED lpc
    /\ UNCHANGED <<callbacks, count, finished, gwerror, items, queue, closed,
                   receiveclosed, remoteerrors, executing, thvars, rcvvars, peervars,
                   obsvars, slvvars, servars, idvars, cbvars, rsvars, wantvars, intvars, stvars, saved, stream, loaded>>

\* load_stop (888-889) and lines 785-788 of load
load_stop ==
    /\ AtOp("STOP")
    /\ IF Len(stack) # 1
       THEN lpc' = "UnserializationError" /\ UNCHANGED <<stack, loaded>>
       ELSE /\ loaded' = stack[1]
            /\ stack' = Tail(stack)
            /\ lpc' = "returned"
    /\ pos' = pos + 1
    /\ UNCHANGED <<facvars, chvars, thvars, rcvvars, peervars, obsvars, slvvars,
                   servars, idvars, cbvars, rsvars, wantvars, intvars, stvars, saved, stream>>

NextLoad ==
    \/ \E v \in LoadValues : Save(v)
    \/ load_none
    \/ load_true
    \/ load_false
    \/ load_int
    \/ load_longint
    \/ load_py3string
    \/ load_bytes
    \/ load_newlist
    \/ load_newdict
    \/ load_setitem
    \/ load_buildtuple
    \/ load_set
    \/ load_frozenset
    \/ load_channel
    \/ load_stop

SpecLoad == Init /\ [][NextLoad]_vars

\* ------------------------------------- ChannelFactory.new on both ends
\* the ids of s
Range(s) ==
    {s[i] : i \in DOMAIN s}

\* new() in the local factory (lines 451-457): the id is the count, the count
\* steps on, the channel is mapped under the id
FactoryNew ==
    /\ ~finished
    /\ Len(allocated) < MaxAllocs
    /\ allocated' = Append(allocated, count)
    /\ channels' = channels \cup {count}
    /\ count' = NextCount(count)
    /\ UNCHANGED <<callbacks, finished, gwerror, chvars, thvars, rcvvars, peervars,
                   obsvars, slvvars, servars, peercount, peerchannels, peerallocated, cbvars, rsvars, wantvars, intvars, stvars, ldvars>>

\* new() in the peer's factory
PeerFactoryNew ==
    /\ Len(peerallocated) < MaxAllocs
    /\ peerallocated' = Append(peerallocated, peercount)
    /\ peerchannels' = peerchannels \cup {peercount}
    /\ peercount' = NextCount(peercount)
    /\ UNCHANGED <<facvars, chvars, thvars, rcvvars, peervars, obsvars, slvvars,
                   servars, allocated, cbvars, rsvars, wantvars, intvars, stvars, ldvars>>

\* new(id) in the local factory (lines 454-457) for an id that came in a
\* message: one the peer allocated, or one of its own sent back
FactoryNewId(id) ==
    /\ ~finished
    /\ id \in Range(allocated) \cup Range(peerallocated)
    /\ id \notin channels
    /\ channels' = channels \cup {id}
    /\ UNCHANGED <<callbacks, count, finished, gwerror, chvars, thvars, rcvvars,
                   peervars, obsvars, slvvars, servars, idvars, cbvars, rsvars, wantvars, intvars, stvars, ldvars>>

\* new(id) in the peer's factory
PeerFactoryNewId(id) ==
    /\ id \in Range(allocated) \cup Range(peerallocated)
    /\ id \notin peerchannels
    /\ peerchannels' = peerchannels \cup {id}
    /\ UNCHANGED <<facvars, chvars, thvars, rcvvars, peervars, obsvars, slvvars,
                   servars, peercount, allocated, peerallocated, cbvars, rsvars, wantvars, intvars, stvars, ldvars>>

\* line 438: _channels is a WeakValueDictionary, an entry goes with its Channel
FactoryDrop(id) ==
    /\ id \in channels
    /\ channels' = channels \ {id}
    /\ UNCHANGED <<callbacks, count, finished, gwerror, chvars, thvars, rcvvars,
                   peervars, obsvars, slvvars, servars, idvars, cbvars, rsvars, wantvars, intvars, stvars, ldvars>>

PeerFactoryDrop(id) ==
    /\ id \in peerchannels
    /\ peerchannels' = peerchannels \ {id}
    /\ UNCHANGED <<facvars, chvars, thvars, rcvvars, peervars, obsvars, slvvars,
                   servars, peercount, allocated, peerallocated, cbvars, rsvars, wantvars, intvars, stvars, ldvars>>

\* the ids that can be named in the model
AllIds == 0..(SLAVESTARTCOUNT + 2 * MaxAllocs)

NextIds ==
    \/ FactoryNew
    \/ PeerFactoryNew
    \/ \E id \in AllIds : FactoryNewId(id)
    \/ \E id \in AllIds : PeerFactoryNewId(id)
    \/ \E id \in AllIds : FactoryDrop(id)
    \/ \E id \in AllIds : PeerFactoryDrop(id)

SpecIds == Init /\ [][NextIds]_vars

\* --------------------------------------------------------------- RSync
\* what the gateway's variables do in a step of RSync
RsyncFrame ==
    UNCHANGED <<facvars, chvars, thvars, rcvvars, peervars, obsvars, slvvars, servars,
                idvars, cbvars, ldvars, stvars, intvars, wantvars>>

\* the requests rsync_remote sends before 'done'
Reqs == {"links", "ack", "list_done", "send"}

\* Channel.send raises IOError on a closed channel (gateway_base.py 386)
RsyncSendRefused(t) ==
    rchan[t] \in {"closed", "closed_error"}

\* add_target, lines 175-177: remote_exec gives the channel, itemcallback is
\* set with endmarker None
AddTargetExec(t, cb) ==
    /\ rspc = "idle"
    /\ rchan[t] = "absent"
    /\ rchan' = [rchan EXCEPT ![t] = "open"]
    /\ finishedcallback' = [finishedcallback EXCEPT ![t] = cb]
    /\ rspc' = "add_send"
    /\ rscur' = t
    /\ UNCHANGED <<rsync_channels, receivequeue, fcalls, rsent, donesent, nreqs, rstart,
                   rdone, rearly, rres>>
    /\ RsyncFrame

\* add_target, lines 178-179: the options are sent, the target is entered;
\* the send raises when the channel is closed by now
AddTargetSend ==
    /\ rspc = "add_send"
    /\ IF RsyncSendRefused(rscur)
       THEN UNCHANGED <<rsync_channels, rsent>>
       ELSE /\ rsent' = [rsent EXCEPT ![rscur] = @ + 1]
            /\ rsync_channels' = rsync_channels \cup {rscur}
    /\ rspc' = "idle"
    /\ rscur' = 0
    /\ UNCHANGED <<finishedcallback, receivequeue, fcalls, rchan, donesent, nreqs, rstart,
                   rdone, rearly, rres>>
    /\ RsyncFrame

\* itemcallback, lines 172-173, called by the gateway's receiver with a
\* request of the remote end
RemoteReq(t, req) ==
    /\ rchan[t] = "open"
    /\ t \notin donesent
    /\ IF req = "done"
       THEN donesent' = donesent \cup {t} /\ UNCHANGED nreqs
       ELSE /\ nreqs[t] < MaxReqs
            /\ nreqs' = [nreqs EXCEPT ![t] = @ + 1]
            /\ UNCHANGED donesent
    /\ receivequeue' = Append(receivequeue, [ch |-> t, req |-> req])
    /\ UNCHANGED <<rsync_channels, finishedcallback, rspc, rscur, fcalls, rsent, rchan,
                   rstart, rdone, rearly, rres>>
    /\ RsyncFrame

\* the channel ends: closed by the remote end, with an error or without, or
\* its receive side closed by the receiver's shutdown; itemcallback is called
\* with the endmarker None, unless the channel ended while setcallback was
\* registering the callback (gateway_base.py 258-259)
ChannelEnd(t, how, called) ==
    /\ rchan[t] = "open"
    /\ rchan' = [rchan EXCEPT ![t] = how]
    /\ receivequeue' = IF called THEN Append(receivequeue, [ch |-> t, req |-> "None"])
                       ELSE receivequeue
    /\ UNCHANGED <<rsync_channels, finishedcallback, rspc, rscur, fcalls, rsent, donesent,
                   nreqs, rstart, rdone, rearly, rres>>
    /\ RsyncFrame

\* line 123: if not self._channels
NoTargets ==
    rsync_channels = {}

\* a loop that ends at once
SendLoopsNever ==
    FALSE

\* line 140: while self._channels
SendLoops ==
    rsync_channels # {}

\* send() is over: it raised or returned
SendOver(outcome) ==
    /\ rres' = Append(rres, outcome)
    /\ rspc' = "idle"
    /\ rscur' = 0

\* send, lines 123-137: without targets OSError or a return; else the
\* directory structure is broadcast (181-183), which raises at the first
\* closed channel
SendCall(raises) ==
    /\ rspc = "idle"
    /\ Len(rres) < MaxSends
    /\ IF NoTargets
       THEN /\ SendOver(IF raises THEN "OSError" ELSE "None")
            /\ UNCHANGED <<rsent, rstart>>
       ELSE /\ rstart' = rsync_channels
            /\ IF \E t \in rsync_channels : RsyncSendRefused(t)
               THEN /\ \E S \in SUBSET {t \in rsync_channels : ~RsyncSendRefused(t)} :
                          rsent' = [t \in Targets |-> IF t \in S THEN rsent[t] + 1 ELSE rsent[t]]
                    /\ SendOver("raised")
               ELSE /\ rsent' = [t \in Targets |->
                                    IF t \in rsync_channels THEN rsent[t] + 1 ELSE rsent[t]]
                    /\ rspc' = "loop"
                    /\ UNCHANGED <<rscur, rres>>
    /\ UNCHANGED <<rsync_channels, finishedcallback, receivequeue, fcalls, rchan, donesent,
                   nreqs, rdone, rearly>>
    /\ RsyncFrame

\* lines 140-157: one turn of the loop with the next item of _receivequeue
SendGet ==
    /\ rspc = "loop"
    /\ SendLoops
    /\ receivequeue # <<>>
    /\ receivequeue' = Tail(receivequeue)
    /\ LET channel == Head(receivequeue).ch
           req == Head(receivequeue).req
       IN  CASE req = "None" ->
                   \* _end_of_channel, line 56
                   /\ IF channel \in rsync_channels
                      THEN /\ rspc' = "end_wait"
                           /\ rscur' = channel
                           /\ rearly' = rearly \cup {channel}
                      ELSE UNCHANGED <<rspc, rscur, rearly>>
                   /\ UNCHANGED <<rsync_channels, fcalls, rsent, rdone, rres>>
             [] req = "done" ->
                   \* _done, lines 70-72: pop raises KeyError for a channel
                   \* that is no target
                   IF channel \in rsync_channels
                   THEN /\ rsync_channels' = rsync_channels \ {channel}
                        /\ fcalls' = [fcalls EXCEPT ![channel] =
                                         IF finishedcallback[channel] = "fn" THEN @ + 1 ELSE @]
                        /\ rdone' = rdone \cup {channel}
                        /\ rspc' = "done_wait"
                        /\ rscur' = channel
                        /\ UNCHANGED <<rsent, rearly, rres>>
                   ELSE /\ SendOver("raised")
                        /\ UNCHANGED <<rsync_channels, fcalls, rsent, rdone, rearly>>
             [] req \in {"links", "send"} ->
                   \* _process_link, _send_item: channel.send
                   /\ IF RsyncSendRefused(channel)
                      THEN SendOver("raised") /\ UNCHANGED rsent
                      ELSE /\ rsent' = [rsent EXCEPT ![channel] = @ + 1]
                           /\ UNCHANGED <<rspc, rscur, rres>>
                   /\ UNCHANGED <<rsync_channels, fcalls, rdone, rearly>>
             [] req \in {"ack", "list_done"} ->
                   \* lines 149-153 with no progress callback
                   UNCHANGED <<rsync_channels, fcalls, rsent, rdone, rearly, rspc, rscur, rres>>
    /\ UNCHANGED <<finishedcallback, rchan, donesent, nreqs, rstart>>
    /\ RsyncFrame

\* line 140: no target is left, send() returns
SendReturn ==
    /\ rspc = "loop"
    /\ ~SendLoops
    /\ SendOver("returned")
    /\ UNCHANGED <<rsync_channels, finishedcallback, receivequeue, fcalls, rsent, rchan,
                   donesent, nreqs, rstart, rdone, rearly>>
    /\ RsyncFrame

\* Channel.waitclose (gateway_base.py 361-377): waits for the receive side
\* to be closed, then raises the channel's remote error or the gateway's
RsyncWaitclose(t) ==
    IF rchan[t] \in {"closed_error", "eof"} THEN "raised" ELSE "ok"

\* _done, line 73: channel.waitclose()
SendDoneWait ==
    /\ rspc = "done_wait"
    /\ rchan[rscur] # "open"
    /\ IF RsyncWaitclose(rscur) = "raised"
       THEN SendOver("raised")
       ELSE /\ rspc' = "loop"
            /\ rscur' = 0
            /\ UNCHANGED rres
    /\ UNCHANGED <<rsync_channels, finishedcallback, receivequeue, fcalls, rsent, rchan,
                   donesent, nreqs, rstart, rdone, rearly>>
    /\ RsyncFrame

\* _end_of_channel, lines 58-60: waitclose raises, or OSError is raised
SendEndWait ==
    /\ rspc = "end_wait"
    /\ rchan[rscur] # "open"
    /\ SendOver("raised")
    /\ UNCHANGED <<rsync_channels, finishedcallback, receivequeue, fcalls, rsent, rchan,
                   donesent, nreqs, rstart, rdone, rearly>>
    /\ RsyncFrame

\* an RSync with its targets, their remote ends and the thread that calls
\* add_target and send
NextRsync ==
    \/ \E t \in Targets, cb \in {"fn", "None"} : AddTargetExec(t, cb)
    \/ AddTargetSend
    \/ \E t \in Targets, req \in Reqs \cup {"done"} : RemoteReq(t, req)
    \/ \E t \in Targets, how \in {"closed", "closed_error", "eof"}, called \in BOOLEAN :
           ChannelEnd(t, how, called)
    \/ \E raises \in BOOLEAN : SendCall(raises)
    \/ SendGet
    \/ SendReturn
    \/ SendDoneWait
    \/ SendEndWait

SpecRsync == Init /\ [][NextRsync]_vars

\* ===================================================================
\* Properties
\* ===================================================================
\* s is strictly increasing
Increasing(s) ==
    \A i, j \in DOMAIN s : i < j => s[i] < s[j]

\* the number of end-markers in q
Endmarkers(q) ==
    Cardinality({i \in DOMAIN q : q[i] = ENDMARKER})

\* q holds a data item behind an end-marker
DataBehindEndmarker(q) ==
    \E i, j \in DOMAIN q : i < j /\ q[i] = ENDMARKER /\ q[j] # ENDMARKER

\* a thread is inside setcallback on c (it holds the receive lock)
InSetcallback(c) ==
    \E t \in Threads : pc[t] \in {"setcb_loop", "setcb_reg"} /\ tch[t] = c

\* the id of c was mapped and is mapped no longer, its Channel object alive
Removed(c) ==
    obj[c] = "live" /\ c \notin channels

\* C1: the payloads the peer sends on one channel id (1, 2, ... in the order
\* sent) are handed to receive() callers and to the callback in the order
\* sent, none twice and none out of order, whatever is sent on other ids.
C1_FifoDelivery ==
    \A c \in Ids : Increasing(delivered[c])

\* both payloads of id 1 were handed over, a payload of id 3 sent between them
C1_Witness ==
    /\ sentdata = <<1, 3, 1>>
    /\ delivered[1] = <<1, 2>>

Strip(frame) ==
    [k \in DOMAIN frame |-> [op |-> frame[k].op, n |-> frame[k].n, s |-> frame[k].s]]

\* the serializations of the messages that can be serialized
Frames ==
    {SaveOps(CHANNEL_DATA, c, item) :
        c \in SerIds, item \in {i \in Items : Raise \notin
            {SaveValue(i)[k] : k \in DOMAIN SaveValue(i)}}}

\* C3: when several threads send through the one shared Serializer, every
\* string written to the transport is the whole, contiguous serialization of
\* exactly one message, written by one save; no frame is written twice and
\* no save loses its frame (the IndexError of the join on an empty list).
C3_SendAtomic ==
    /\ \A i \in DOMAIN wire :
          /\ Strip(wire[i]) \in Frames
          /\ \A j, k \in DOMAIN wire[i] : wire[i][j].by = wire[i][k].by
    /\ \A i, j \in DOMAIN wire : i # j => wire[i][1].by # wire[j][1].by
    /\ \A t \in Users : res[t] # "IndexError"

\* C4: a send whose serialization fails (SerializationError raised to the
\* caller) puts none of its bytes on the transport: every frame written is
\* free of what a failed save wrote.
C4_NothingWrittenOnFailure ==
    \A i \in DOMAIN wire : \A k \in DOMAIN wire[i] : wire[i][k].by \notin failedsaves

\* C5: a queue never holds two end-markers and never a data item behind an
\* end-marker, after any local and remote closes and receive() calls.
C5_OneEndmarkerAtTail ==
    \A c \in Ids : items[c] = "queue" /\ (\A t \in Threads : tch[t] # c) =>
        /\ Endmarkers(queue[c]) <= 1
        /\ ~DataBehindEndmarker(queue[c])

C7_NoDataAfterLatch ==
    [][/\ rpc = "lr_put" /\ rpc' # "lr_put" => ~receiveclosed[rmsg.id]
       /\ rpc = "lr_cb" /\ rpc' # "lr_cb" => ~receiveclosed[rmsg.id]]_vars

\* C8: once closed is true, no further CHANNEL_DATA, CHANNEL_CLOSE or
\* CHANNEL_CLOSE_ERROR with the channel's id is emitted.
C8_NoEmitAfterClosed ==
    [][\A c \in Ids : closed[c] => out'[c] = out[c]]_vars

InClose(c) ==
    \E t \in Threads : /\ tch[t] = c
                       /\ pc[t] \in {"close_chk", "close_send", "close_set",
                                     "close_latch", "close_put", "close_nlo"}

\* C10: a close() called on a channel whose _executing is true, with or
\* without an error, ends with IOError, emits no message and leaves closed,
\* receive_closed, the queue and the factory's maps as they were; no close()
\* gets past its checks while the body runs: the exec loop closes the channel
\* when the body has ended.
C10_CloseRefusedWhileExecuting ==
    /\ [](\A c \in Ids : executing[c] => ~closecalled[c] /\ ~InClose(c))
    /\ [][\A c \in Ids : executing[c] =>
            \A t \in Users, err \in {"None", "error"} : CloseBegin(t, c, err) =>
                /\ res'[t] = "IOError"
                /\ pc'[t] = "idle"
                /\ UNCHANGED <<out, closed, receiveclosed, queue, channels, callbacks>>]_vars

\* the body runs and a close() on its channel, the one operation called so
\* far, ended with IOError; the channel is open and has its queue
C10_Witness ==
    \E c \in Ids : /\ executing[c]
                   /\ pc["exec"] = "exec_body"
                   /\ nops = 1
                   /\ res["u1"] = "IOError"
                   /\ ~closed[c]
                   /\ items[c] = "queue"
                   /\ \A d \in Ids \ {c} : obj[d] = "absent"

\* no entry of s occurs twice
Distinct(s) ==
    \A i, j \in DOMAIN s : i # j => s[i] # s[j]

\* C11: the ids a factory's new() allocates are pairwise distinct and have the
\* parity of its startcount; with startcounts of different parity no id the
\* master allocated equals an id the slave allocated, whatever new(id) calls
\* are made for ids received.
C11_IdDisjointness ==
    /\ Distinct(allocated)
    /\ Distinct(peerallocated)
    /\ \A i \in DOMAIN allocated : allocated[i] % 2 = STARTCOUNT % 2
    /\ \A i \in DOMAIN peerallocated : peerallocated[i] % 2 = SLAVESTARTCOUNT % 2
    /\ Range(allocated) \cap Range(peerallocated) = {}

\* both factories allocated twice, and each maps an id the other allocated
C11_Witness ==
    /\ Len(allocated) >= 2
    /\ Len(peerallocated) >= 2
    /\ channels \cap Range(peerallocated) # {}
    /\ peerchannels \cap Range(allocated) # {}

\* the payloads of q, in order, without its end-markers
RECURSIVE Payloads(_)
Payloads(q) ==
    IF q = <<>> THEN <<>>
    ELSE IF Head(q) = ENDMARKER THEN Payloads(Tail(q))
    ELSE <<Head(q)>> \o Payloads(Tail(q))

\* p is a prefix of s
IsPrefix(p, s) ==
    /\ Len(p) <= Len(s)
    /\ \A i \in DOMAIN p : p[i] = s[i]

\* a setcallback on c has swapped the queue out and returned
SetcallbackDone(c) ==
    items[c] = "None" /\ ~InSetcallback(c)

\* C12: once setcallback(fn) has returned, fn has been passed every item
\* that was in the queue when the call began, once each and in queue order,
\* ahead of every payload the receiver passed to fn; a receive() begun after
\* the swap raises IOError.
C12_QueuedItemsToCallback ==
    /\ [](\A c \in Ids : SetcallbackDone(c) =>
            /\ IsPrefix(Payloads(snap[c]), fngot[c])
            /\ Increasing(fngot[c]))
    /\ [][\A t \in Users, c \in Ids, timeout \in {"block", "timeout"} :
            items[c] = "None" /\ ReceiveBegin(t, c, timeout) => res'[t] = "IOError"]_vars

\* C12 for the channels no receive() ever took an item from: an item queued
\* behind an end-marker is never passed to fn
C12_QueuedItemsNoReceive ==
    \A c \in Ids : SetcallbackDone(c) /\ delivered[c] = fngot[c] =>
        IsPrefix(Payloads(snap[c]), fngot[c])

\* C13: the step that finalizes a channel puts exactly one frame for its id
\* on the wire when the channel is open (closed false, receive_closed unset):
\* CHANNEL_LAST_MESSAGE when a callback was installed, CHANNEL_CLOSE when
\* not; it puts none when the channel is closed or sendonly; it puts no frame
\* for another id.
C13_FinalizerCorrectness ==
    [][\A c \in Ids : obj[c] = "live" /\ obj'[c] = "deleted" =>
          /\ out'[c] = out[c] \o
                (IF closed[c] \/ receiveclosed[c] THEN <<>>
                 ELSE IF items[c] = "None" THEN <<"CHANNEL_LAST_MESSAGE">>
                 ELSE <<"CHANNEL_CLOSE">>)
          /\ \A d \in Ids \ {c} : out'[d] = out[d]]_vars

\* an open channel with a callback was finalized: CHANNEL_LAST_MESSAGE is
\* the one frame sent for its id
C13_Witness ==
    \E c \in Ids : /\ obj[c] = "deleted"
                   /\ items[c] = "None"
                   /\ ~closed[c]
                   /\ ~receiveclosed[c]
                   /\ out[c] = <<"CHANNEL_LAST_MESSAGE">>

\* the exec loop returns from the close of the channel of a body that raised,
\* in a run where no other thread called anything on a channel
ExecErrorCloseReturns ==
    /\ pc["exec"] \in {"exec_close", "close_nlo"}
    /\ pc'["exec"] = "idle"
    /\ targ["exec"] = "error"
    /\ nops = 0

BlockedAfterEOF(t) ==
    /\ gwerror
    /\ rpc = "done"
    /\ pc[t] = "recv_get"
    /\ targ[t] = "block"
    /\ items[tch[t]] = "queue"
    /\ remoteerrors[tch[t]] = <<>>

\* C15: EOF on the read side is recorded as the gateway's _error, and every
\* thread waiting in receive() on a queue-mode channel then eventually
\* returns: with an item that was queued, or by raising EOFError.
C15_EOFWakesReceivers ==
    /\ [][rpc = "read" /\ rpc' = "done" => gwerror' /\ finished']_vars
    /\ \A t \in Users :
          BlockedAfterEOF(t) ~> (pc[t] = "idle" /\ res[t] \in {"item", "EOFError"})

\* the receiver met EOF; of two threads in receive() on a channel that holds
\* one payload, one returned the payload and the other raised EOFError
C15_Witness ==
    /\ gwerror
    /\ {res["u1"], res["u2"]} = {"item", "EOFError"}
    /\ \E c \in Ids : /\ eofraised[c]
                      /\ ~closed[c]
                      /\ delivered[c] = <<1>>

\* the receiver has met EOF and run _finished_receiving
EOFProcessed ==
    gwerror /\ finished /\ rpc = "done"

\* thread t returns from a waitclose() after EOF, on a channel that is not
\* closed and has no remote error queued
WaitcloseReturnsAfterEOF(t) ==
    /\ EOFProcessed
    /\ pc[t] = "wc_error"
    /\ pc'[t] = "idle"
    /\ ~closed[tch[t]]
    /\ remoteerrors[tch[t]] = <<>>

\* C16 as stated: after EOF, waitclose() on a channel that was open and has
\* no remote error queued returns normally.
C16_WaitcloseReturnsNormally ==
    [][\A t \in Users : WaitcloseReturnsAfterEOF(t) => res'[t] = "ok"]_vars

\* C16 amended: after EOF, waitclose() on such a channel does not stay
\* blocked, and it raises EOFError, the gateway's recorded _error.
C16_WaitcloseRaisesEOFError ==
    /\ [][\A t \in Users : WaitcloseReturnsAfterEOF(t) => res'[t] = "EOFError"]_vars
    /\ \A t \in Users : (EOFProcessed /\ pc[t] = "wc_wait") ~> (pc[t] = "idle")

\* the receiver met EOF and a waitclose() raised EOFError (no receive() has
\* raised anything)
C16_Witness ==
    /\ EOFProcessed
    /\ \E t \in Users : res[t] = "EOFError"
    /\ \A c \in Ids : ~eofraised[c] /\ ~closed[c]

\* C17 as stated: after EOF has been processed, send() on a channel that was
\* open before the EOF raises IOError and emits nothing.
C17_SendRefusedAfterEOF ==
    [][\A t \in Users, c \in Ids : EOFProcessed /\ ~closed[c] /\ SendBegin(t, c) =>
            res'[t] = "IOError" /\ pc'[t] = "idle"]_vars

\* C17 amended: EOF leaves closed as it is (the channels become sendonly), so
\* a send() after EOF on a channel that is not closed passes its check and
\* hands its CHANNEL_DATA frame to the transport; send() raises IOError on a
\* closed channel, and emits nothing there.
C17_SendPassesAfterEOF ==
    /\ [][rpc = "read" /\ rpc' = "done" => closed' = closed]_vars
    /\ [][\A t \in Users, c \in Ids : EOFProcessed /\ ~closed[c] /\ SendBegin(t, c) =>
            pc'[t] = "send_emit"]_vars
    /\ [][\A t \in Users : pc[t] = "send_emit" /\ pc'[t] = "idle" =>
            /\ out'[tch[t]] = Append(out[tch[t]], "CHANNEL_DATA")
            /\ res'[t] = "ok"]_vars
    /\ [][\A t \in Users, c \in Ids : closed[c] /\ SendBegin(t, c) =>
            /\ res'[t] = "IOError"
            /\ pc'[t] = "idle"
            /\ out' = out]_vars

\* after EOF a send() on a sendonly channel is past its check
C17_Witness ==
    /\ EOFProcessed
    /\ \E t \in Users : /\ pc[t] = "send_emit"
                         /\ ~closed[tch[t]]
                         /\ receiveclosed[tch[t]]
                         /\ tch[t] \notin channels

\* thread t's receive() ends with TimeoutError in this step
ReceiveTimesOut(t) ==
    /\ pc[t] = "recv_get"
    /\ pc'[t] = "idle"
    /\ res'[t] = "TimeoutError"

\* C18: a receive() that raises TimeoutError was called with a timeout and
\* found the queue empty; neither its entry nor its expiry changes the
\* queue, closed, receive_closed, the remote errors or the factory's maps,
\* and neither emits a message: what arrives later is there for the next
\* receive().
C18_TimeoutLeavesChannel ==
    [][\A t \in Users :
          /\ ReceiveTimesOut(t) =>
                /\ targ[t] = "timeout"
                /\ queue[tch[t]] = <<>>
                /\ UNCHANGED <<facvars, chvars, out, delivered>>
          /\ pc[t] = "idle" /\ pc'[t] = "recv_get" =>
                UNCHANGED <<facvars, chvars, out, delivered>>]_vars

\* a receive(timeout) has raised TimeoutError with nothing delivered; the
\* payload that arrived since is in the queue, where the receive() of the
\* other thread is about to get it
C18_Witness ==
    \E t, u \in Users, c \in Ids :
        /\ res[t] = "TimeoutError"
        /\ pc[u] = "recv_get"
        /\ tch[u] = c
        /\ queue[c] = <<1>>
        /\ delivered[c] = <<>>
        /\ ~closed[c]
        /\ ~receiveclosed[c]
        /\ \A d \in Ids \ {c} : obj[d] = "absent"

\* thread t's receive() or waitclose() is at its call of _getremoteerror
AtGetRemoteError(t) ==
    pc[t] \in {"recv_raise", "wc_error"}

\* C19: a CHANNEL_CLOSE_ERROR received for a mapped id is recorded on the
\* channel and sets its latch, so a waitclose() does not wait; the receive()
\* that has met the end-marker and the waitclose() that has seen the latch
\* raise the first recorded error when there is one; the step that raises it
\* takes it off the list, and nothing else does, so each error is raised to
\* one caller; with no error left receive() raises EOFError.
C19_RemoteErrorSurfacesOnce ==
    /\ [](\A c \in Ids : remoteerrors[c] # <<>> => closed[c] /\ receiveclosed[c])
    /\ [][\A m \in PeerMsgs :
            m.type = "CHANNEL_CLOSE_ERROR" /\ m.id \in channels /\ RcvMessage(m) =>
                /\ remoteerrors'[m.id] = Append(remoteerrors[m.id], "RemoteError")
                /\ receiveclosed'[m.id]
                /\ queue'[m.id] = Append(queue[m.id], ENDMARKER)]_vars
    /\ [][\A t \in Users : AtGetRemoteError(t) /\ pc'[t] = "idle" =>
            IF remoteerrors[tch[t]] # <<>>
            THEN /\ res'[t] = "RemoteError"
                 /\ remoteerrors'[tch[t]] = Tail(remoteerrors[tch[t]])
            ELSE /\ res'[t] # "RemoteError"
                 /\ pc[t] = "recv_raise" => res'[t] = "EOFError"
                 /\ UNCHANGED remoteerrors]_vars
    /\ [][\A c \in Ids : Len(remoteerrors'[c]) < Len(remoteerrors[c]) =>
            Cardinality({t \in Users : AtGetRemoteError(t) /\ tch[t] = c /\ pc'[t] = "idle"}) = 1]_vars

\* the peer sent a payload and closed with an error: the payload was
\* returned, one caller got the RemoteError, the other EOFError, and no error
\* is left
C19_Witness ==
    /\ ~gwerror
    /\ {res["u1"], res["u2"]} = {"RemoteError", "EOFError"}
    /\ \E c \in Ids : /\ closed[c]
                      /\ remoteerrors[c] = <<>>
                      /\ eofraised[c]
                      /\ \A d \in Ids \ {c} : obj[d] = "absent"

\* ---------------------------------------------------------------- C20
\* save(saved) is over: it raised, or load ran on its bytes to the end
SaveLoadOver ==
    lpc \notin {"idle", "load"}

\* C20: for every supported value v, loading the bytes that save(v) wrote
\* returns a value equal to v and leaves the Unserializer's stack empty
C20_RoundTrip ==
    SaveLoadOver =>
        /\ lpc = "returned"
        /\ ValEq(loaded, saved)
        /\ stack = <<>>

\* an int below the signed 32-bit range
BelowInt4(v) ==
    v.k = "int" /\ v.s # <<>> /\ v.n < 0

RECURSIVE HasBelowInt4(_)
HasBelowInt4(v) ==
    BelowInt4(v) \/ \E i \in DOMAIN v.items : HasBelowInt4(v.items[i])

\* C20, but for the values that hold an int below the signed 32-bit range:
\* every other value of the model comes back equal, the stack left empty
C20_RoundTripAboveMin ==
    SaveLoadOver /\ ~HasBelowInt4(saved) =>
        /\ lpc = "returned"
        /\ ValEq(loaded, saved)
        /\ stack = <<>>

\* save() of an int below the signed 32-bit range raises struct.error
C20_BelowInt4Raises ==
    SaveLoadOver /\ HasBelowInt4(saved) => lpc = "struct.error"

\* a nesting of every container came back, and an int above the range
C20_Witness ==
    /\ lpc = "returned"
    /\ saved \in {DictV(<<TupleV(<<IntV(0), TextV(<<97>>)>>), ListV(<<DictV(<<>>)>>)>>),
                  LongV(1, <<2, 1, 4, 7, 4, 8, 3, 6, 4, 8>>)}
    /\ ValEq(loaded, saved)

\* ---------------------------------------------------------------- C21
\* a step of the STATUS handler
StatusStep ==
    \/ \E c \in Ids : RcvStatus(c)
    \/ \E c \in Ids : RcvStatusScan(c)
    \/ RcvStatusSend

\* C21 as stated: the numbers of every reply are the exec queue's size, the
\* number of live channels and the number of channels with executing true
\* at the moment of the reply
C21_StatusReportsMoment ==
    \A i \in DOMAIN replies :
        /\ replies[i].execqsize = replies[i].qsize
        /\ replies[i].numchannels = replies[i].mapped
        /\ replies[i].numexecuting = replies[i].running

\* what every reply does report: the exec queue's size when the reply is
\* made, the number of channels that were in the factory's map when the
\* handler began, and among these the ones it saw executing
StatusRepliesSound ==
    \A i \in DOMAIN replies :
        /\ replies[i].execqsize = replies[i].qsize
        /\ replies[i].numchannels = replies[i].startmapped
        /\ replies[i].numexecuting <= replies[i].numchannels

\* C21 (amended): handling a STATUS message leaves the factory's channel
\* map, callbacks map and counter as they are, and sends exactly one
\* CHANNEL_DATA on the id of the message, whose numbers are the exec queue's
\* size at the reply, the number of channels mapped when the handler began
\* and the number of these it saw executing
C21_StatusAllocatesNothing ==
    /\ []StatusRepliesSound
    /\ [][StatusStep => UNCHANGED <<channels, callbacks, count>>]_vars
    /\ [][RcvStatusSend =>
            /\ out'[rmsg.id] = Append(out[rmsg.id], "CHANNEL_DATA")
            /\ \A c \in Ids \ {rmsg.id} : out'[c] = out[c]]_vars
    /\ [][(\E c \in Ids : RcvStatus(c) \/ RcvStatusScan(c)) => out' = out]_vars

\* a STATUS was answered while a body was running and a task was waiting
C21_Witness ==
    \E i \in DOMAIN replies :
        /\ replies[i].numexecuting = 1
        /\ replies[i].numchannels = 2
        /\ replies[i].execqsize = 1

\* ---------------------------------------------------------------- C22
\* the receiver has handled GATEWAY_TERMINATE or read EOF: it is in, or
\* past, _terminate_execution
TerminationBegun ==
    rpc = "term_wait"

\* the exec loop has left serve()'s loop with _execfinished set, or the
\* process is gone
SlaveEnded ==
    \/ execfinished /\ pc["exec"] = "exec_done"
    \/ exited

C23_EndmarkerAtMostOnce ==
    \A c \in Ids : endcalls[c] <= 1

\* the callback raised on a payload, the error was sent, the receiver has
\* ended, and the callback got the endmarker once on the way
C23_Witness ==
    \E c \in Ids :
        /\ endcalls[c] = 1
        /\ "CHANNEL_CLOSE_ERROR" \in Range(out[c])
        /\ fngot[c] # <<>>
        /\ rpc = "done"

\* ---------------------------------------------------------------- C24
\* nothing is under way on channel c: no thread is inside an operation on
\* it, the receiver is between two messages or has ended
Quiet(c) ==
    /\ \A t \in Threads : tch[t] # c
    /\ rpc \in {"read", "done"}

\* C24: when setcallback was given an endmarker, the callback is called with
\* it once the channel has closed: at the latest when the close and the
\* setcallback are both over, whichever way they interleaved with each other
\* and with a receive()
C24_EndmarkerEventually ==
    \A c \in Ids : c \in endwanted /\ closed[c] /\ Quiet(c) => endcalls[c] >= 1

\* ---------------------------------------------------------------- C25
\* C25: once the receiver has exited, _finished_receiving has run: finished
\* is set, no channel and no callback is left in the factory's maps, every
\* channel the factory knew has its receive latch set, and no callback
\* registered with an endmarker is still waiting for it
C25_ReceiverExitCleansUp ==
    rpc = "done" =>
        /\ finished
        /\ channels = {}
        /\ \A c \in Ids : callbacks[c] = "none"
        /\ \A c \in Ids : obj[c] = "live" => receiveclosed[c]

\* ---------------------------------------------------------------- C26
\* the CHANNEL_CLOSE and CHANNEL_CLOSE_ERROR messages sent with id c
CloseFrames(c) ==
    {i \in DOMAIN out[c] : out[c][i] \in {"CHANNEL_CLOSE", "CHANNEL_CLOSE_ERROR"}}

\* C26 as stated: a close() that got past the checks of executing and closed
\* has sent a CHANNEL_CLOSE or CHANNEL_CLOSE_ERROR by the time it is over,
\* on a sendonly channel as on an open one
C26_CloseAlwaysEmits ==
    \A c \in Ids : closecalled[c] /\ ~InClose(c) => CloseFrames(c) # {}

\* C26 (amended): a close(error) on a channel that is not executing and not
\* closed sends one CHANNEL_CLOSE (no error) or CHANNEL_CLOSE_ERROR (error)
\* when the receive latch is not set at line 345, and nothing when it is
\* (sendonly, or closed by the receiver in between); it then sets closed and
\* the latch, puts an end-marker when the channel has its queue, and drops
\* the id from the channel and callback maps. A close() on a closed channel
\* returns and changes neither the channel nor the factory
C26_CloseEffects ==
    /\ [][\A t \in Threads : pc[t] = "close_chk" /\ pc'[t] # "close_chk" =>
            /\ out' = out
            /\ pc'[t] = "close_send" <=> ~receiveclosed[tch[t]]]_vars
    /\ [][\A t \in Threads : pc[t] = "close_send" /\ pc'[t] # "close_send" =>
            /\ out'[tch[t]] = Append(out[tch[t]], IF targ[t] = "None" THEN "CHANNEL_CLOSE"
                                                  ELSE "CHANNEL_CLOSE_ERROR")
            /\ \A c \in Ids \ {tch[t]} : out'[c] = out[c]]_vars
    /\ [][\A t \in Threads : pc[t] \in {"close_set", "close_latch", "close_put", "close_nlo"}
                             /\ pc'[t] # pc[t] => out' = out]_vars
    /\ [][\A t \in Threads : pc[t] = "close_put" /\ pc'[t] # "close_put" =>
            /\ closed[tch[t]] /\ receiveclosed[tch[t]]
            /\ queue'[tch[t]] = IF items[tch[t]] = "queue"
                                THEN Append(queue[tch[t]], ENDMARKER) ELSE queue[tch[t]]]_vars
    /\ [][\A t \in Threads : pc[t] = "close_nlo" /\ pc'[t] # "close_nlo" =>
            /\ closed'[tch[t]] /\ receiveclosed'[tch[t]]
            /\ tch[t] \notin channels'
            /\ callbacks'[tch[t]] = "none"]_vars
    /\ [][\A t \in Users, c \in Ids, err \in {"None", "error"} :
            closed[c] /\ ~executing[c] /\ CloseBegin(t, c, err) =>
                /\ res'[t] = "ok"
                /\ pc'[t] = "idle"
                /\ UNCHANGED <<facvars, chvars, out, endcalls, removals, closecalled>>]_vars

\* the receiver has ended on EOF, the one thing it read, and left the channel
\* sendonly; a close() of the channel has run to its end and sent nothing
C26_Witness ==
    \E c \in Ids :
        /\ closecalled[c] /\ ~InClose(c)
        /\ closed[c]
        /\ c \notin channels
        /\ out[c] = <<>>
        /\ ENDMARKER \in Range(queue[c])
        /\ rpc = "done"
        /\ nmsgs = 1

\* ---------------------------------------------------------------- C27
\* the receiver handles a CHANNEL_LAST_MESSAGE for the mapped id c
LastMessageReceived(c) ==
    /\ c \in channels
    /\ RcvMessage([type |-> "CHANNEL_LAST_MESSAGE", id |-> c, data |-> 0])

\* C27: a CHANNEL_LAST_MESSAGE for a live channel sets its receive latch,
\* puts an end-marker on its queue and leaves closed as it is; while the
\* channel is sendonly (latch set, closed false) only a local close() sets
\* closed, and a send() passes its check and emits one CHANNEL_DATA
C27_LastMessageSendonly ==
    /\ [][\A c \in Ids : LastMessageReceived(c) =>
            /\ receiveclosed'[c]
            /\ closed'[c] = closed[c]
            /\ items[c] = "queue" => queue'[c] = Append(queue[c], ENDMARKER)
            /\ out' = out]_vars
    /\ [][\A c \in Ids : receiveclosed[c] /\ ~closed[c] /\ closed'[c] =>
            \E t \in Threads : tch[t] = c /\ pc[t] = "close_set"]_vars
    /\ [][\A t \in Users, c \in Ids : receiveclosed[c] /\ ~closed[c] /\ SendBegin(t, c) =>
            pc'[t] = "send_emit"]_vars
    /\ [][\A t \in Users : pc[t] = "send_emit" /\ pc'[t] # "send_emit" =>
            /\ out'[tch[t]] = Append(out[tch[t]], "CHANNEL_DATA")
            /\ res'[t] = "ok"]_vars

\* the peer's CHANNEL_LAST_MESSAGE was the one message read; u1's receive()
\* then met the end-marker and raised EOFError, and u1's send() on the
\* sendonly channel has emitted its CHANNEL_DATA
C27_Witness ==
    \E c \in Ids :
        /\ rpc = "read" /\ nmsgs = 1
        /\ receiveclosed[c] /\ ~closed[c]
        /\ queue[c] = <<ENDMARKER>>
        /\ eofraised[c]
        /\ nops = 2 /\ pc["u1"] = "idle" /\ res["u1"] = "ok" /\ res["u2"] = "none"
        /\ out[c] = <<"CHANNEL_DATA">>

\* ---------------------------------------------------------------- C28
\* the receiver handles message m of the peer, whose id is not mapped
UnknownIdReceived(m) ==
    /\ m.id \notin channels
    /\ RcvMessage(m)

\* C28 as stated: whatever message brings an id the factory does not know, a
\* CHANNEL_DATA, a CHANNEL_EXEC or a payload with a channel reference, the
\* id is mapped to a live channel afterwards
C28_UnknownIdCreates ==
    /\ [][\A m \in PeerMsgs : m.type = "CHANNEL_DATA" /\ UnknownIdReceived(m) =>
            m.id \in channels' /\ obj'[m.id] = "live"]_vars
    /\ [][\A c \in Ids : c \notin channels /\ (RcvExec(c) \/ RcvLoadChannel(c)) =>
            c \in channels' /\ obj'[c] = "live"]_vars

\* C28 (amended): a CHANNEL_EXEC and a channel reference in a payload map an
\* id the factory does not know to a new, open channel; new(id) for a mapped
\* id gives the mapped channel and makes nothing; a CHANNEL_DATA, and a
\* CHANNEL_CLOSE, CHANNEL_CLOSE_ERROR or CHANNEL_LAST_MESSAGE, with an id
\* that is not mapped creates no channel, queues nothing and sends nothing;
\* every mapped id belongs to a live channel
C28_ImplicitCreation ==
    /\ [](\A c \in channels : obj[c] = "live")
    /\ [][\A c \in Ids : c \notin channels /\ (RcvExec(c) \/ RcvLoadChannel(c)) =>
            /\ channels' = channels \cup {c}
            /\ obj'[c] = "live"
            /\ ~closed'[c] /\ ~receiveclosed'[c] /\ queue'[c] = <<>>]_vars
    /\ [][\A c \in Ids : c \in channels /\ RcvLoadChannel(c) =>
            UNCHANGED <<channels, chvars>>]_vars
    /\ [][\A m \in PeerMsgs : UnknownIdReceived(m) =>
            UNCHANGED <<channels, obj, queue, enqueued, delivered, out>>]_vars

\* three messages were read: a reference to channel 1 in a payload, which
\* made the channel, a CHANNEL_DATA for channel 1, which is in its queue,
\* and a CHANNEL_DATA for the unknown id 3, which made nothing
C28_Witness ==
    /\ nmsgs = 3
    /\ channels = {1}
    /\ obj[1] = "live" /\ obj[3] = "absent"
    /\ queue[1] = <<1>>
    /\ sentdata = <<1, 3>>
    /\ execqueue = <<>> /\ pc["exec"] = "idle" /\ nops = 0
    /\ rpc = "read"

\* ---------------------------------------------------------------- C29
\* C29: when a callback raises on a CHANNEL_DATA, one CHANNEL_CLOSE_ERROR
\* is sent for the id and for no other, the channel, if it is still mapped,
\* is closed with the error recorded, and the receiver goes on to read the
\* next message: the factory is not finished; this holds for a live channel
\* and for a finalized one whose callback is still registered
C29_CallbackErrorPerChannel ==
    /\ [][rpc = "lr_cberr_send" /\ rpc' # rpc =>
            /\ out'[rmsg.id] = Append(out[rmsg.id], "CHANNEL_CLOSE_ERROR")
            /\ \A c \in Ids \ {rmsg.id} : out'[c] = out[c]
            /\ rpc' = "lr_cberr_close"]_vars
    /\ [][rpc = "lr_cberr_close" /\ rpc' # rpc =>
            /\ out' = out
            /\ rmsg.id \in channels =>
                   /\ closed'[rmsg.id] /\ receiveclosed'[rmsg.id]
                   /\ remoteerrors'[rmsg.id] = Append(remoteerrors[rmsg.id], "errortext")
            /\ callbacks'[rmsg.id] = "none"
            /\ rpc' = "read"
            /\ finished' = finished]_vars

\* ---------------------------------------------------------------- C30
\* the main thread is inside the body of the task it runs
InBody ==
    pc["exec"] \in {"exec_body", "setcb_loop", "setcb_reg"}

\* the main thread is done with the task it ran
TaskEnds ==
    /\ tch["exec"] # 0
    /\ tch'["exec"] = 0

\* C30: the exec loop takes the tasks in the order their CHANNEL_EXEC came
\* in and runs one at a time: a channel's executing flag is set only while
\* the main thread is inside the body of that channel's task, so at most one
\* is set; and when the main thread is done with a task, the task's channel
\* is closed and its executing flag is false
C30_ExecLoopSerial ==
    /\ [](\A c \in Ids : executing[c] /\ ~exited => tch["exec"] = c /\ InBody)
    /\ [](Cardinality({c \in Ids : executing[c]}) <= 1)
    /\ [][\A c \in Ids : RcvExec(c) => execqueue' = Append(execqueue, c)]_vars
    /\ [][pc["exec"] = "idle" /\ pc'["exec"] = "exec_body" =>
            /\ tch'["exec"] = Head(execqueue)
            /\ execqueue' = Tail(execqueue)]_vars
    /\ [][TaskEnds => closed'[tch["exec"]] /\ ~executing'[tch["exec"]]]_vars

\* ---------------------------------------------------------------- C31
\* C31: save() of an int writes INT and the four bytes of its two's
\* complement when the int is in the signed 32-bit range, and LONGINT with
\* the length and the ASCII decimal of the int when it is outside, above or
\* below; it does not end with struct.error
C31_IntegerEncoding ==
    saved.k = "int" /\ lpc # "idle" =>
        /\ lpc # "struct.error"
        /\ saved.s = <<>> =>
               stream = <<Op("INT"), [op |-> "int4", n |-> 0, s |-> Pack4(saved.n)], Op("STOP")>>
        /\ saved.s # <<>> =>
               stream = <<Op("LONGINT"),
                          [op |-> "int4", n |-> 0, s |-> Pack4(Len(Ascii(saved)))],
                          [op |-> "bytes", n |-> 0, s |-> Ascii(saved)], Op("STOP")>>

\* ---------------------------------------------------------------- C32
\* thread t waits in a receive() without timeout on a channel that has been
\* closed: by a close(), by a close message of the peer, or (its receive
\* side) by the receiver's shutdown
BlockedOnClosed(t) ==
    /\ pc[t] = "recv_get"
    /\ targ[t] = "block"
    /\ closed[tch[t]] \/ receiveclosed[tch[t]]

\* C32: a receive() without timeout that waits on a channel returns an item
\* or raises, in the end, once the channel is closed, whatever other threads
\* do on the channel meanwhile: receive(), close() or setcallback()
C32_NoReceiverStranded ==
    \A t \in Users : BlockedOnClosed(t) ~> pc[t] = "idle"

\* ---------------------------------------------------------------- C33
\* the outcome of the send() that ends in this step
SendEndsWith(outcome) ==
    /\ Len(rres') = Len(rres) + 1
    /\ rres'[Len(rres')] = outcome

\* C33: a send() with targets returns only when 'done' has been handled for
\* every target it started with, the finishedcallback of each called once
\* and no target left; a send() that sees a target's channel end before its
\* 'done' raises; and a send() without targets raises OSError, or returns
\* when raises is false, and sends nothing
C33_SendCompletes ==
    /\ [][SendEndsWith("returned") =>
            /\ rstart # {}
            /\ rsync_channels' = {}
            /\ \A t \in rstart :
                   /\ t \in rdone
                   /\ t \notin rearly
                   /\ fcalls[t] = IF finishedcallback[t] = "fn" THEN 1 ELSE 0]_vars
    /\ [](\A t \in Targets : fcalls[t] <= 1)
    /\ [][rspc = "end_wait" /\ rspc' # "end_wait" => SendEndsWith("raised")]_vars
    /\ [](rspc = "idle" /\ rres # <<>> /\ rres[Len(rres)] = "returned"
            /\ (\A t \in Targets : rchan[t] # "absent" => t \in rstart)
          => rsync_channels = {})
    /\ [][\A raises \in BOOLEAN : rsync_channels = {} /\ SendCall(raises) =>
            /\ SendEndsWith(IF raises THEN "OSError" ELSE "None")
            /\ UNCHANGED <<rsent, receivequeue, rsync_channels, fcalls>>]_vars

\* a send() returned after both targets had done, the callback of each was
\* called once, and the send() called after it raised OSError
C33_Witness ==
    /\ rres = <<"returned", "OSError">>
    /\ rstart = Targets
    /\ rdone = Targets
    /\ \A t \in Targets : fcalls[t] = 1

====
